---- MODULE Spec2Model ----
(***************************************************************************)
(* Model of mcp-excel's structure analyzer (loading/analyzer.py) and of    *)
(* the loader / override pipeline (loading/loader.py) with the XLSX        *)
(* reader it delegates to (loading/formats/handlers.py, manager.py,        *)
(* normalizer.py).                                                         *)
(*                                                                         *)
(* A worksheet is a grid of cells.  A cell is the string "None" (empty),   *)
(* a text ("a", "b", ...) or a number ("1", "2").  Row and column indices  *)
(* are 1-based as in openpyxl.  Python's None for a row index is 0         *)
(* (NoRow); confidences are kept in tenths (0.9 -> 9, 0.5 -> 5, 0.0 -> 0). *)
(***************************************************************************)
EXTENDS Integers, Sequences, FiniteSets, TLC

VARIABLES
    ws,              \* the worksheet stored in the file
    override,        \* the SheetOverride handed to load_sheet (NoOverride = None)
    explicit,        \* the fields the caller gave when it built the SheetOverride
    faults,          \* what the environment makes raise during this call
    names,           \* TableRegistry._names
    collision_counts,\* TableRegistry._collision_counts
    views,           \* the views created on the DuckDB connection: name -> frame
    structure_info,  \* the StructureInfo last returned by analyze_structure
    returned,        \* what the last operation returned (or that it raised)
    frame,           \* _apply_drop_conditions: the DataFrame argument
    conditions,      \* _apply_drop_conditions: the drop_conditions argument
    pc,              \* "idle" before the operation, "done" after it
    cache,           \* ExcelAnalyzer._cache.cache: <<key, value>> pairs, oldest first
    call,            \* the arguments of the operation: file_path, sheet, ...
    mtime,           \* st_mtime of every file
    history,         \* the calls completed on the shared object, in order
    threads,         \* every thread's position and local variables
    lock,            \* the RLock of the shared object: owner and hold count
    catalog,         \* server.catalog: table name -> TableMeta
    files,           \* the files under the root directory: relpath -> content
    load_configs     \* server.load_configs: alias -> LoadConfig

vars == <<ws, override, explicit, faults, names, collision_counts, views,
          structure_info, returned, frame, conditions, pc,
          cache, call, mtime, history, threads, lock, catalog, files, load_configs>>

\* the state of the server module
server_vars == <<catalog, files, load_configs>>

\* what the calls of one thread on a fresh analyzer leave alone
shared_vars == <<call, mtime, history, threads, lock>>

----------------------------------------------------------------------------
(* Generic helpers                                                         *)

NONE == "None"
NoRow == 0

Min2(a, b) == IF a <= b THEN a ELSE b
Max2(a, b) == IF a >= b THEN a ELSE b
SetMin(S) == CHOOSE x \in S : \A y \in S : x <= y
SetMax(S) == CHOOSE x \in S : \A y \in S : x >= y

Range(s) == {s[i] : i \in DOMAIN s}

RECURSIVE SortedSeq(_)
\* the elements of a finite set of integers in increasing order
SortedSeq(S) ==
    IF S = {} THEN <<>> ELSE <<SetMin(S)>> \o SortedSeq(S \ {SetMin(S)})

RECURSIVE Repeat(_, _)
Repeat(x, n) == IF n <= 0 THEN <<>> ELSE <<x>> \o Repeat(x, n - 1)

\* the sequences over S of length 0..n
SeqsUpTo(S, n) == UNION {[1..k -> S] : k \in 0..n}

\* s without its first n elements (Python s[n:])
DropFirst(s, n) == IF n >= Len(s) THEN <<>> ELSE SubSeq(s, n + 1, Len(s))

\* s without its last n elements, n > 0 (Python s[:-n])
DropLast(s, n) == IF n >= Len(s) THEN <<>> ELSE SubSeq(s, 1, Len(s) - n)

\* the first n elements of s (Python s[:n])
TakeFirst(s, n) == SubSeq(s, 1, Min2(n, Len(s)))

----------------------------------------------------------------------------
(* Cells and worksheets                                                    *)

Numbers == {"1", "2"}
NumberTexts == {"'1", "'2"}                  \* the texts "1" and "2"
IsNumber(c) == c \in Numbers                 \* isinstance(c, (int, float))
IsString(c) == c # NONE /\ c \notin Numbers  \* isinstance(c, str)
Str(c) == IF c \in NumberTexts THEN SubSeq(c, 2, 2) ELSE c   \* str(c)

MaxRow(w) == Len(w.cells)                    \* ws.max_row
MaxColumn(w) == Len(w.cells[1])              \* ws.max_column

\* ws.cell(r, c).value: a cell outside the stored grid is created empty
CellValue(w, r, c) ==
    IF r \in 1..MaxRow(w) /\ c \in 1..MaxColumn(w) THEN w.cells[r][c] ELSE NONE

\* [ws.cell(r, col).value for col in range(c1, c2 + 1)]
RowCells(w, r, c1, c2) == [i \in 1..(c2 - c1 + 1) |-> CellValue(w, r, c1 + i - 1)]

----------------------------------------------------------------------------
(* Structure analyzer                                                      *)

HeaderScanRows == 10
TableWidthLookahead == 100
HighConfidence == 9
WeakConfidence == 5
NoConfidence == 0

DetectHiddenRows(w) == {r \in 1..MaxRow(w) : r \in w.hidden_rows}
DetectHiddenColumns(w) == {c \in 1..MaxColumn(w) : c \in w.hidden_cols}

DetectDataRegion(w, hidden_rows, hidden_columns) ==
    LET filled == {p \in (1..MaxRow(w)) \X (1..MaxColumn(w)) :
                      /\ p[1] \notin hidden_rows
                      /\ p[2] \notin hidden_columns
                      /\ w.cells[p[1]][p[2]] # NONE}
    IN IF filled = {}
       THEN [start_row |-> 1, end_row |-> 1, start_col |-> 1, end_col |-> 1]
       ELSE [start_row |-> SetMin({p[1] : p \in filled}),
             end_row   |-> SetMax({p[1] : p \in filled}),
             start_col |-> SetMin({p[2] : p \in filled}),
             end_col   |-> SetMax({p[2] : p \in filled})]

\* the test one row passes in _detect_headers / _detect_section_header:
\* lastRow is the last row of the region or section that is scanned
NonEmpty(cells) == {i \in DOMAIN cells : cells[i] # NONE}
AllStrings(cells) == \A i \in NonEmpty(cells) : IsString(cells[i])
HasNumbersBelow(w, r, lastRow, c1, c2) ==
    /\ r < lastRow
    /\ \E i \in 1..(c2 - c1 + 1) : IsNumber(RowCells(w, r + 1, c1, c2)[i])

HeaderRowQualifies(w, r, lastRow, c1, c2) ==
    /\ NonEmpty(RowCells(w, r, c1, c2)) # {}
    /\ AllStrings(RowCells(w, r, c1, c2))
    /\ (HasNumbersBelow(w, r, lastRow, c1, c2) \/ r = lastRow)

DetectHeaders(w, dr) ==
    LET scanned == dr.start_row ..
                     (Min2(dr.start_row + HeaderScanRows, dr.end_row + 1) - 1)
        found == {r \in scanned :
                     HeaderRowQualifies(w, r, dr.end_row, dr.start_col, dr.end_col)}
    IN IF found # {}
       THEN [header_row |-> SetMin(found), header_rows_count |-> 1,
             confidence |-> HighConfidence]
       ELSE [header_row |-> NoRow, header_rows_count |-> 0,
             confidence |-> NoConfidence]

DetectMetadata(dr, header_info) ==
    LET rows == IF header_info.header_row # NoRow
                   /\ header_info.header_row > dr.start_row
                THEN dr.start_row .. (header_info.header_row - 1)
                ELSE {}
    IN [rows |-> rows, suggested_skip |-> Cardinality(rows)]

DetectBlankRows(w, dr) ==
    {r \in dr.start_row..dr.end_row :
        NonEmpty(RowCells(w, r, dr.start_col, dr.end_col)) = {}}

\* _group_consecutive_blank_rows: the maximal runs, as <<first, last>> pairs
GroupConsecutiveBlankRows(blank) ==
    {g \in blank \X blank :
        /\ g[1] <= g[2]
        /\ \A r \in g[1]..g[2] : r \in blank
        /\ (g[1] - 1) \notin blank
        /\ (g[2] + 1) \notin blank}

MinSeparatorRows == 2

\* mutant: only runs of at least 5 blank rows separate tables
SignificantSeparatorsFiveRows(groups) == {g \in groups : g[2] - g[1] + 1 >= 5}

SignificantSeparators(groups) ==
    {g \in groups : g[2] - g[1] + 1 >= MinSeparatorRows}

RECURSIVE SplitFrom(_, _, _)
\* the loop of _split_by_separators over the separators sorted by first row
SplitFrom(current_start, end_row, seps) ==
    IF seps = <<>>
    THEN IF current_start <= end_row THEN <<<<current_start, end_row>>>> ELSE <<>>
    ELSE LET sep == Head(seps)
             here == IF current_start < sep[1]
                     THEN <<<<current_start, sep[1] - 1>>>>
                     ELSE <<>>
         IN here \o SplitFrom(sep[2] + 1, end_row, Tail(seps))

RECURSIVE SortByFirst(_)
SortByFirst(groups) ==
    IF groups = {} THEN <<>>
    ELSE LET g == CHOOSE x \in groups : \A y \in groups : x[1] <= y[1]
         IN <<g>> \o SortByFirst(groups \ {g})

\* a variant that never splits
SplitNowhere(start_row, end_row, separators) == <<<<start_row, end_row>>>>

SplitBySeparators(start_row, end_row, separators) ==
    SplitFrom(start_row, end_row, SortByFirst(separators))

DetectSectionHeader(w, section_start, section_end, c1, c2) ==
    LET scanned == section_start ..
                     (Min2(section_start + HeaderScanRows, section_end + 1) - 1)
        found == {r \in scanned : HeaderRowQualifies(w, r, section_end, c1, c2)}
    IN IF found # {}
       THEN [found |-> TRUE, header_row |-> SetMin(found),
             confidence |-> IF HasNumbersBelow(w, SetMin(found), section_end, c1, c2)
                            THEN HighConfidence ELSE WeakConfidence]
       ELSE [found |-> FALSE, header_row |-> NoRow, confidence |-> NoConfidence]

DetectTitleRows(w, section_start, header_row, c1, c2) ==
    {r \in section_start..(header_row - 1) : NonEmpty(RowCells(w, r, c1, c2)) # {}}

DetectTableWidth(w, header_row, end_row, c1, c2) ==
    LET rows == header_row .. (Min2(header_row + TableWidthLookahead, end_row + 1) - 1)
        used == {c \in c1..c2 : \E r \in rows : CellValue(w, r, c) # NONE}
        min_col == IF used = {} THEN c2 ELSE Min2(c2, SetMin(used))
        max_col == IF used = {} THEN c1 ELSE Max2(c1, SetMax(used))
    IN IF min_col <= max_col THEN <<min_col, max_col>> ELSE <<c1, c2>>

\* the table descriptor of the whole box, used when nothing splits the sheet
WholeBoxTable(dr, header_info) ==
    [start_row |-> header_info.header_row, end_row |-> dr.end_row,
     start_col |-> dr.start_col, end_col |-> dr.end_col,
     has_header |-> TRUE, header_row |-> header_info.header_row,
     confidence |-> header_info.confidence, title_rows |-> {}]

RECURSIVE SectionTables(_, _, _)
\* the loop of _detect_multiple_tables over the sections
SectionTables(w, dr, sections) ==
    IF sections = <<>> THEN <<>>
    ELSE LET s == Head(sections)
             h == DetectSectionHeader(w, s[1], s[2], dr.start_col, dr.end_col)
             width == DetectTableWidth(w, h.header_row, s[2], dr.start_col, dr.end_col)
             here == IF s[1] <= s[2] /\ h.found
                     THEN <<[start_row |-> h.header_row, end_row |-> s[2],
                             start_col |-> width[1], end_col |-> width[2],
                             has_header |-> TRUE, header_row |-> h.header_row,
                             confidence |-> h.confidence,
                             title_rows |-> DetectTitleRows(w, s[1], h.header_row,
                                                            dr.start_col, dr.end_col)]>>
                     ELSE <<>>
         IN here \o SectionTables(w, dr, Tail(sections))

DetectMultipleTables(w, dr, header_info) ==
    LET separators ==
            SignificantSeparators(GroupConsecutiveBlankRows(DetectBlankRows(w, dr)))
        whole == IF header_info.header_row # NoRow
                 THEN <<WholeBoxTable(dr, header_info)>> ELSE <<>>
        tables == SectionTables(w, dr,
                      SplitBySeparators(dr.start_row, dr.end_row, separators))
    IN IF separators = {} THEN whole
       ELSE IF tables = <<>> THEN whole
       ELSE tables

CreateDefaultStructureInfo ==
    [data_start_row |-> 1, data_end_row |-> 1,
     data_start_col |-> 1, data_end_col |-> 1,
     header_row |-> NoRow, header_rows_count |-> 0,
     header_confidence |-> NoConfidence,
     metadata_rows |-> {}, merged_ranges |-> {},
     hidden_rows |-> {}, hidden_columns |-> {},
     detected_locale |-> "en_US",
     num_tables |-> 0, table_ranges |-> <<>>, blank_rows |-> {},
     suggested_skip_rows |-> 0, suggested_skip_footer |-> 0]

\* analyze_structure on a cache miss; `fails` is an exception raised while
\* the workbook is opened or analysed
AnalyzeStructure(w, fails) ==
    LET hidden_rows == DetectHiddenRows(w)
        hidden_columns == DetectHiddenColumns(w)
        dr == DetectDataRegion(w, hidden_rows, hidden_columns)
        header_info == DetectHeaders(w, dr)
        metadata_info == DetectMetadata(dr, header_info)
        tables == DetectMultipleTables(w, dr, header_info)
    IN IF fails THEN CreateDefaultStructureInfo
       ELSE [data_start_row |-> dr.start_row, data_end_row |-> dr.end_row,
             data_start_col |-> dr.start_col, data_end_col |-> dr.end_col,
             header_row |-> header_info.header_row,
             header_rows_count |-> header_info.header_rows_count,
             header_confidence |-> header_info.confidence,
             metadata_rows |-> metadata_info.rows,
             merged_ranges |-> w.merged,
             hidden_rows |-> hidden_rows, hidden_columns |-> hidden_columns,
             detected_locale |-> "en_US",
             num_tables |-> Len(tables), table_ranges |-> tables,
             blank_rows |-> DetectBlankRows(w, dr),
             suggested_skip_rows |-> metadata_info.suggested_skip,
             suggested_skip_footer |-> 0]

----------------------------------------------------------------------------
(* LRUCache (loading/analyzer.py).  The OrderedDict is the sequence of its *)
(* <<key, value>> pairs, the least recently used pair first.               *)

\* maxsize of the analyzer under study (ExcelAnalyzer(cache_size=...))
CacheSize == 2

NoValue == "None"

CacheKeys(c) == {c[i][1] : i \in DOMAIN c}
CacheIndex(c, key) == CHOOSE i \in DOMAIN c : c[i][1] = key
CacheValue(c, key) == c[CacheIndex(c, key)][2]

\* OrderedDict.move_to_end(key) for a key that is present
MoveToEnd(c, key) ==
    SelectSeq(c, LAMBDA e : e[1] # key) \o <<c[CacheIndex(c, key)]>>

\* OrderedDict.__setitem__: a present key keeps its position
SetItem(c, key, value) ==
    IF key \in CacheKeys(c) THEN [c EXCEPT ![CacheIndex(c, key)] = <<key, value>>]
    ELSE Append(c, <<key, value>>)

\* OrderedDict.popitem(last=False)
PopOldest(c) == Tail(c)

\* a put that leaves an existing key where it is
LeaveInPlace(c, key) == c

\* the first statement of put: move an existing key to the end
TouchIfPresent(c, key) == IF key \in CacheKeys(c) THEN MoveToEnd(c, key) ELSE c

\* the last statement of put: drop the oldest pair when over maxsize
EvictOver(c, maxsize) == IF Len(c) > maxsize THEN PopOldest(c) ELSE c

\* LRUCache.get: the value (None on a miss, `found` tells the two apart) and
\* the cache it leaves
CacheGet(c, key) ==
    IF key \notin CacheKeys(c) THEN [found |-> FALSE, value |-> NoValue, cache |-> c]
    ELSE [found |-> TRUE, value |-> CacheValue(c, key), cache |-> MoveToEnd(c, key)]

\* LRUCache.put
CachePut(c, key, value, maxsize) ==
    EvictOver(SetItem(TouchIfPresent(c, key), key, value), maxsize)

\* str(float): st_mtime is a float, whole seconds print as "<n>.0"
FormatMtime(m) == ToString(m) \o ".0"

\* cache_key = f"{file_path}:{sheet}:{mtime}"
CacheKey(file_path, sheet, m) == file_path \o ":" \o sheet \o ":" \o FormatMtime(m)

\* analyze_structure after the cache lookup missed: the result and the cache
StoreResult(info, c, key, maxsize) ==
    [info |-> info, cache |-> CachePut(c, key, info, maxsize)]

\* a variant that never stores what it computed
AnalyzeWithoutStoring(w, fails, c, key, maxsize) ==
    [info |-> AnalyzeStructure(w, fails), cache |-> c]

AnalyzeAndStore(w, fails, c, key, maxsize) ==
    IF fails THEN [info |-> CreateDefaultStructureInfo, cache |-> c]
    ELSE StoreResult(AnalyzeStructure(w, FALSE), c, key, maxsize)

\* analyze_structure once st_mtime was read: `if cached_result:` returns the
\* cached StructureInfo (a StructureInfo is always truthy), otherwise the
\* workbook is analysed
AnalyzeWithCache(w, fails, c, key, hit, maxsize) ==
    IF hit.found THEN [info |-> hit.value, cache |-> hit.cache]
    ELSE AnalyzeAndStore(w, fails, c, key, maxsize)

----------------------------------------------------------------------------
(* Table-name registry (utils/naming.py).  Names are strings; a registry   *)
(* is the pair names (the issued names) and collision_counts (a function   *)
(* from the base names that collided to their counter).                    *)

MaxNameLength == 63

UpperChars == "ABCDEFGHIJKLMNOPQRSTUVWXYZ"
LowerChars == "abcdefghijklmnopqrstuvwxyz"
DigitChars == "0123456789"

CharAt(s, i) == SubSeq(s, i, i)
CharsOf(s) == {CharAt(s, i) : i \in 1..Len(s)}

\* str.lower() of one character
LowerChar(ch) ==
    IF \E i \in 1..Len(UpperChars) : CharAt(UpperChars, i) = ch
    THEN CharAt(LowerChars, CHOOSE i \in 1..Len(UpperChars) : CharAt(UpperChars, i) = ch)
    ELSE ch

IsDigit(ch) == ch \in CharsOf(DigitChars)
\* the characters re.sub(r'[^a-z0-9_$]', '', ...) keeps
IsKept(ch) == ch \in CharsOf(LowerChars) \/ IsDigit(ch) \/ ch = "_" \/ ch = "$"

RECURSIVE MapLowerSpace(_)
\* component.lower().replace(' ', '_')
MapLowerSpace(s) ==
    IF s = "" THEN ""
    ELSE (IF CharAt(s, 1) = " " THEN "_" ELSE LowerChar(CharAt(s, 1)))
         \o MapLowerSpace(SubSeq(s, 2, Len(s)))

RECURSIVE KeepAllowed(_)
KeepAllowed(s) ==
    IF s = "" THEN ""
    ELSE (IF IsKept(CharAt(s, 1)) THEN CharAt(s, 1) ELSE "")
         \o KeepAllowed(SubSeq(s, 2, Len(s)))

RECURSIVE CollapseUnderscores(_)
\* re.sub(r'_+', '_', ...)
CollapseUnderscores(s) ==
    IF Len(s) < 2 THEN s
    ELSE IF CharAt(s, 1) = "_" /\ CharAt(s, 2) = "_"
         THEN CollapseUnderscores(SubSeq(s, 2, Len(s)))
         ELSE CharAt(s, 1) \o CollapseUnderscores(SubSeq(s, 2, Len(s)))

RECURSIVE StripUnderscores(_)
\* str.strip('_')
StripUnderscores(s) ==
    IF s = "" THEN ""
    ELSE IF CharAt(s, 1) = "_" THEN StripUnderscores(SubSeq(s, 2, Len(s)))
    ELSE IF CharAt(s, Len(s)) = "_" THEN StripUnderscores(SubSeq(s, 1, Len(s) - 1))
    ELSE s

SanitizeComponent(component) ==
    StripUnderscores(CollapseUnderscores(KeepAllowed(MapLowerSpace(component))))

RECURSIVE ReplaceChar(_, _, _)
ReplaceChar(s, old, new) ==
    IF s = "" THEN ""
    ELSE (IF CharAt(s, 1) = old THEN new ELSE CharAt(s, 1))
         \o ReplaceChar(SubSeq(s, 2, Len(s)), old, new)

RECURSIVE SplitOn(_, _)
\* str.split(sep) for a one-character separator
SplitOn(s, sep) ==
    IF \A i \in 1..Len(s) : CharAt(s, i) # sep THEN <<s>>
    ELSE LET i == CHOOSE k \in 1..Len(s) :
                     CharAt(s, k) = sep /\ \A j \in 1..(k - 1) : CharAt(s, j) # sep
         IN <<SubSeq(s, 1, i - 1)>> \o SplitOn(SubSeq(s, i + 1, Len(s)), sep)

\* relpath.rsplit(".", 1)[0] if "." in relpath else relpath
StripExtension(relpath) ==
    IF \A i \in 1..Len(relpath) : CharAt(relpath, i) # "." THEN relpath
    ELSE LET i == CHOOSE k \in 1..Len(relpath) :
                     CharAt(relpath, k) = "."
                     /\ \A j \in (k + 1)..Len(relpath) : CharAt(relpath, j) # "."
         IN SubSeq(relpath, 1, i - 1)

RECURSIVE JoinWith(_, _)
\* sep.join(parts)
JoinWith(parts, sep) ==
    IF parts = <<>> THEN ""
    ELSE IF Len(parts) = 1 THEN parts[1]
    ELSE parts[1] \o sep \o JoinWith(Tail(parts), sep)

RECURSIVE NonEmptyParts(_)
NonEmptyParts(parts) ==
    IF parts = <<>> THEN <<>>
    ELSE (IF Head(parts) # "" THEN <<Head(parts)>> ELSE <<>>)
         \o NonEmptyParts(Tail(parts))

BuildAndSanitize(alias, relpath, sheet, region_id) ==
    LET components == SplitOn(ReplaceChar(StripExtension(relpath), "\\", "/"), "/")
        parts == <<alias>> \o components \o <<sheet>>
                 \o (IF region_id > 0 THEN <<"r" \o ToString(region_id)>> ELSE <<>>)
        sanitized == NonEmptyParts([i \in DOMAIN parts |-> SanitizeComponent(parts[i])])
        padded == IF Len(sanitized) = 1 THEN sanitized \o <<"table">> ELSE sanitized
        name == JoinWith(padded, ".")
        prefixed == IF \E i \in DOMAIN padded : IsDigit(CharAt(padded[i], 1))
                    THEN "t_" \o name ELSE name
    IN IF sanitized = <<>> THEN "table"
       ELSE IF Len(prefixed) > MaxNameLength
            THEN SubSeq(prefixed, 1, MaxNameLength) ELSE prefixed

\* collision_counts[name], a defaultdict(int)
CountOf(counts, name) == IF name \in DOMAIN counts THEN counts[name] ELSE 0

\* a variant that settles for the number after a taken one
NextSuffix(issued, name, collision_num) ==
    IF (name \o "_" \o ToString(collision_num)) \in issued
    THEN collision_num + 2 ELSE collision_num

RECURSIVE FirstFreeSuffix(_, _, _)
\* while f"{name}_{collision_num}" in self._names: collision_num += 1
FirstFreeSuffix(issued, name, collision_num) ==
    IF (name \o "_" \o ToString(collision_num)) \in issued
    THEN FirstFreeSuffix(issued, name, collision_num + 1)
    ELSE collision_num

\* a variant whose suffixes start one lower
HandleCollisionFromOne(issued, counts, name) ==
    IF name \notin issued THEN name
    ELSE name \o "_" \o ToString(FirstFreeSuffix(issued, name, CountOf(counts, name) + 1))

\* a variant that takes the counter's suffix without looking it up
HandleCollisionUnprobed(issued, counts, name) ==
    IF name \notin issued THEN name
    ELSE name \o "_" \o ToString(CountOf(counts, name) + 2)

HandleCollision(issued, counts, name) ==
    IF name \notin issued THEN name
    ELSE name \o "_" \o ToString(FirstFreeSuffix(issued, name, CountOf(counts, name) + 2))

\* register: the name returned and the registry after the call
RegisterSanitized(issued, counts, sanitized) ==
    LET final_name == HandleCollision(issued, counts, sanitized)
    IN [name |-> final_name,
        names |-> issued \cup {final_name},
        counts |-> IF sanitized \in issued
                   THEN [n \in DOMAIN counts \cup {sanitized} |->
                            IF n = sanitized THEN CountOf(counts, n) + 1
                            ELSE counts[n]]
                   ELSE counts]

Register(issued, counts, alias, relpath, sheet, region_id) ==
    RegisterSanitized(issued, counts, BuildAndSanitize(alias, relpath, sheet, region_id))

----------------------------------------------------------------------------
(* DataFrames.  A frame is [columns, rows, src, col_src, header_src]:      *)
(* columns are the column names, rows the cell rows; src[i] is the         *)
(* worksheet row that row i was read from, col_src[j] the worksheet column *)
(* of column j and header_src the worksheet rows used as header.  The      *)
(* last three are not part of a DataFrame; they record where its content   *)
(* came from.                                                              *)

EmptyFrame ==
    [columns |-> <<>>, rows |-> <<>>, src |-> <<>>, col_src |-> <<>>,
     header_src |-> <<>>]

ColumnOf(f, j) == [i \in 1..Len(f.rows) |-> f.rows[i][j]]

\* the rows of f for which keep[i] holds, in order
RECURSIVE KeptIndices(_, _)
KeptIndices(keep, i) ==
    IF i > Len(keep) THEN <<>>
    ELSE (IF keep[i] THEN <<i>> ELSE <<>>) \o KeptIndices(keep, i + 1)

SelectRows(f, keep) ==
    LET idx == KeptIndices(keep, 1)
    IN [f EXCEPT !.rows = [k \in 1..Len(idx) |-> f.rows[idx[k]]],
                 !.src = [k \in 1..Len(idx) |-> f.src[idx[k]]]]

SelectColumns(f, keep) ==
    LET idx == KeptIndices(keep, 1)
    IN [f EXCEPT !.columns = [k \in 1..Len(idx) |-> f.columns[idx[k]]],
                 !.col_src = [k \in 1..Len(idx) |-> f.col_src[idx[k]]],
                 !.rows = [i \in 1..Len(f.rows) |->
                              [k \in 1..Len(idx) |-> f.rows[i][idx[k]]]]]

\* f with column j replaced by cell-wise conv
MapColumn(f, j, conv(_)) ==
    [f EXCEPT !.rows = [i \in 1..Len(f.rows) |->
                           [k \in 1..Len(f.columns) |->
                               IF k = j THEN conv(f.rows[i][k]) ELSE f.rows[i][k]]]]

\* df.columns.get_loc(name): the first column called name, 0 if there is none
ColumnIndex(f, name) ==
    IF \E j \in 1..Len(f.columns) : f.columns[j] = name
    THEN SetMin({j \in 1..Len(f.columns) : f.columns[j] = name})
    ELSE 0

ColI(i) == "col_" \o ToString(i)

----------------------------------------------------------------------------
(* XLSXHandler.parse (formats/handlers.py)                                 *)

NoRange == <<>>   \* range = "" / None; a range is <<min_row, min_col, max_row, max_col>>

\* _handle_merged_cells: with strategy 'fill' every cell of a merged range
\* takes the value of its top-left cell
HandleMergedCells(w, strategy) ==
    IF strategy # "fill" THEN w
    ELSE [w EXCEPT !.cells =
            [r \in 1..MaxRow(w) |-> [c \in 1..MaxColumn(w) |->
                IF \E m \in w.merged : r \in m[1]..m[3] /\ c \in m[2]..m[4]
                THEN LET m == CHOOSE m \in w.merged :
                                  r \in m[1]..m[3] /\ c \in m[2]..m[4]
                     IN w.cells[m[1]][m[2]]
                ELSE w.cells[r][c]]]]

\* the worksheet rows and columns parse reads, before skip_rows
ParsedRows(w, options) ==
    IF options.range # NoRange
    THEN SortedSeq(options.range[1]..options.range[3])
    ELSE SortedSeq({r \in 1..MaxRow(w) :
                       ~(options.ignore_hidden /\ r \in w.hidden_rows)})

ParsedColumns(w, options) ==
    IF options.range # NoRange
    THEN SortedSeq(options.range[2]..options.range[4])
    ELSE SortedSeq({c \in 1..MaxColumn(w) :
                       ~(options.ignore_hidden /\ c \in w.hidden_cols)})

\* the part of parse after the rows were read: skip_rows, skip_footer
RowsAfterSkips(w, options) ==
    LET read == ParsedRows(w, options)
        skipped == IF options.skip_rows > 0
                   THEN DropFirst(read, options.skip_rows) ELSE read
    IN IF options.skip_footer > 0
       THEN DropLast(skipped, options.skip_footer) ELSE skipped

\* '_'.join(parts) over the header rows of one column, or col_{i}
HeaderName(w, header_rows, c, i, sep) ==
    LET parts == NonEmptyParts([k \in 1..Len(header_rows) |->
                     IF CellValue(w, header_rows[k], c) = NONE THEN ""
                     ELSE Str(CellValue(w, header_rows[k], c))])
    IN IF parts = <<>> THEN ColI(i) ELSE JoinWith(parts, sep)

ParseXlsx(w0, options) ==
    LET w == IF options.merge_strategy # "skip"
             THEN HandleMergedCells(w0, options.merge_strategy) ELSE w0
        data == RowsAfterSkips(w, options)
        cols == ParsedColumns(w, options)
        has_header == options.header_rows > 0 /\ Len(data) > options.header_rows
        headers == IF has_header THEN TakeFirst(data, options.header_rows) ELSE <<>>
        body == IF has_header THEN DropFirst(data, options.header_rows) ELSE data
    IN IF ParsedRows(w, options) = <<>> THEN EmptyFrame
       ELSE [columns |-> IF has_header
                         THEN [j \in 1..Len(cols) |->
                                  HeaderName(w, headers, cols[j], j - 1, "_")]
                         ELSE IF data = <<>> THEN <<>>
                         ELSE [j \in 1..Len(cols) |-> ColI(j - 1)],
             rows |-> [i \in 1..Len(body) |->
                          [j \in 1..(IF data = <<>> THEN 0 ELSE Len(cols)) |->
                              CellValue(w, body[i], cols[j])]],
             src |-> body,
             col_src |-> IF data = <<>> THEN <<>> ELSE cols,
             header_src |-> headers]

----------------------------------------------------------------------------
(* DataNormalizer.normalize (formats/normalizer.py), as FormatManager      *)
(* .load_file applies it to a parsed frame.  The alphabet of cells has no  *)
(* whitespace, currency symbols or separators, so clean_whitespace and the *)
(* stripping of normalize_numbers change no cell text.  Dates are the      *)
(* strings "D1", "D2" (the date with spreadsheet serial 1, 2).             *)

NumberSampleRows == 100
MinDateSerial == 1
MaxDateSerial == 60000

HasText(col) == \E i \in DOMAIN col : col[i] # NONE /\ ~IsNumber(col[i])
\* the dtype pandas infers: object unless the column holds numbers (and None) only
IsObjectColumn(col) == HasText(col) \/ \A i \in DOMAIN col : col[i] = NONE
IsNumericColumn(col) == ~IsObjectColumn(col)

\* astype(str) of one cell: a number becomes its text, None the text "None"
\* (which the model does not tell from None: both are missing values from
\* handle_missing_values on, and neither is a number or a date before)
AsStr(c) == IF IsNumber(c) THEN "'" \o c ELSE c

RECURSIVE CleanWhitespaceFrom(_, _)
CleanWhitespaceFrom(f, j) ==
    IF j > Len(f.columns) THEN f
    ELSE CleanWhitespaceFrom(
             IF IsObjectColumn(ColumnOf(f, j)) THEN MapColumn(f, j, AsStr) ELSE f,
             j + 1)

CleanWhitespace(f) == CleanWhitespaceFrom(f, 1)

\* _looks_like_numbers on head(100) of the column as strings ("None" included)
LooksLikeNumbers(col) ==
    LET n == Min2(Len(col), NumberSampleRows)
        matches == Cardinality({i \in 1..n : col[i] \in NumberTexts})
    IN n > 0 /\ 2 * matches > n

\* pd.to_numeric(errors='coerce') of one cell
ToNumeric(c) ==
    IF IsNumber(c) THEN c
    ELSE IF c \in NumberTexts THEN SubSeq(c, 2, 2)
    ELSE NONE

RECURSIVE NormalizeNumbersFrom(_, _)
NormalizeNumbersFrom(f, j) ==
    IF j > Len(f.columns) THEN f
    ELSE NormalizeNumbersFrom(
             IF IsObjectColumn(ColumnOf(f, j)) /\ LooksLikeNumbers(ColumnOf(f, j))
             THEN MapColumn(f, j, ToNumeric) ELSE f,
             j + 1)

NormalizeNumbers(f) == NormalizeNumbersFrom(f, 1)

SerialOf(c) == IF c = "1" THEN 1 ELSE 2
\* pd.to_datetime(unit='D', origin='1899-12-30') of one cell
ToSerialDate(c) == IF IsNumber(c) THEN "D" \o c ELSE NONE

LooksLikeDateSerials(col) ==
    /\ IsNumericColumn(col)
    /\ \E i \in DOMAIN col : col[i] # NONE
    /\ \A i \in DOMAIN col : col[i] # NONE =>
           SerialOf(col[i]) >= MinDateSerial /\ SerialOf(col[i]) <= MaxDateSerial

RECURSIVE NormalizeDatesFrom(_, _)
NormalizeDatesFrom(f, j) ==
    IF j > Len(f.columns) THEN f
    ELSE NormalizeDatesFrom(
             IF LooksLikeDateSerials(ColumnOf(f, j))
             THEN MapColumn(f, j, ToSerialDate) ELSE f,
             j + 1)

NormalizeDates(f) == NormalizeDatesFrom(f, 1)

\* handle_missing_values: dropna(how='all') on rows, then on columns
HandleMissingValues(f) ==
    LET g == SelectRows(f, [i \in 1..Len(f.rows) |->
                               \E j \in 1..Len(f.columns) : f.rows[i][j] # NONE])
    IN SelectColumns(g, [j \in 1..Len(g.columns) |->
                            \E i \in 1..Len(g.rows) : g.rows[i][j] # NONE])

BoolTrueWords == {"true", "yes", "'1", "t", "y"}
BoolFalseWords == {"false", "no", "'0", "f", "n"}
ToBool(c) ==
    IF c \in BoolTrueWords THEN "True" ELSE IF c \in BoolFalseWords THEN "False" ELSE NONE

IsDate(c) == c \in {"D1", "D2"}
\* fix_data_types of one column: booleans, then mostly-numeric text
FixColumn(f, j) ==
    LET col == ColumnOf(f, j)
        non_null == {col[i] : i \in DOMAIN col} \ {NONE}
        numeric == Cardinality({i \in DOMAIN col : ToNumeric(col[i]) # NONE})
        filled == Cardinality({i \in DOMAIN col : col[i] # NONE})
    IN IF ~HasText(col) \/ \E c \in non_null : IsDate(c) THEN f
       ELSE IF non_null \subseteq (BoolTrueWords \cup BoolFalseWords)
               /\ Cardinality(non_null) <= 4
            THEN MapColumn(f, j, ToBool)
       ELSE IF 10 * numeric > 9 * filled THEN MapColumn(f, j, ToNumeric)
       ELSE f

RECURSIVE FixDataTypesFrom(_, _)
FixDataTypesFrom(f, j) ==
    IF j > Len(f.columns) THEN f ELSE FixDataTypesFrom(FixColumn(f, j), j + 1)

FixDataTypes(f) == FixDataTypesFrom(f, 1)

Normalize(f) ==
    FixDataTypes(HandleMissingValues(NormalizeDates(NormalizeNumbers(CleanWhitespace(f)))))

----------------------------------------------------------------------------
(* The transformation chain of the loader (loading/loader.py)              *)

\* A regular expression is modelled by the cell strings Series.str.match
\* accepts; "(" does not compile.  An empty cell reads "None" as a string.
InvalidRegex == "("
MatchSet(pattern) ==
    CASE pattern = "^a" -> {"a"}
      [] pattern = "^b" -> {"b"}
      [] pattern = "^[ab]" -> {"a", "b"}
      [] pattern = "^[0-9]" -> {"1", "2", "'1", "'2"}
      [] pattern = "^N" -> {NONE}
      [] OTHER -> {}

\* df[~df[first_col].astype(str).str.match(drop_regex, na=False)]
ApplyDropRegex(f, drop_regex) ==
    IF drop_regex = "" \/ Len(f.columns) = 0 THEN f
    ELSE SelectRows(f, [i \in 1..Len(f.rows) |-> f.rows[i][1] \notin MatchSet(drop_regex)])

\* condition_mask of one drop condition [column, op, value] on row i;
\* op is the first of the keys regex, equals, is_null the dict holds
ConditionMask(f, condition, i) ==
    LET c == f.rows[i][ColumnIndex(f, condition.column)]
    IN CASE condition.op = "regex" ->
                condition.value # InvalidRegex /\ c \in MatchSet(condition.value)
         [] condition.op = "equals" -> c # NONE /\ c = condition.value
         [] condition.op = "is_null" ->
                IF condition.value = "True" THEN c = NONE ELSE c # NONE
         [] OTHER -> FALSE

\* whether the loop of _apply_drop_conditions skips the condition
ConditionSkipped(f, condition) ==
    condition.column = "" \/ ColumnIndex(f, condition.column) = 0

RECURSIVE DropMaskUntilSkipped(_, _, _)
\* mutant: a skipped condition ends the loop instead of continuing it
DropMaskUntilSkipped(f, drop_conditions, i) ==
    IF drop_conditions = <<>> THEN TRUE
    ELSE LET condition == Head(drop_conditions)
         IN IF ConditionSkipped(f, condition) THEN TRUE
            ELSE /\ ~ConditionMask(f, condition, i)
                 /\ DropMaskUntilSkipped(f, Tail(drop_conditions), i)

RECURSIVE DropMask(_, _, _)
\* mask = mask & ~condition_mask over the conditions, for row i
DropMask(f, drop_conditions, i) ==
    IF drop_conditions = <<>> THEN TRUE
    ELSE LET condition == Head(drop_conditions)
         IN /\ (ConditionSkipped(f, condition) \/ ~ConditionMask(f, condition, i))
            /\ DropMask(f, Tail(drop_conditions), i)

ApplyDropConditions(f, drop_conditions) ==
    IF drop_conditions = <<>> \/ Len(f.rows) = 0 THEN f
    ELSE SelectRows(f, [i \in 1..Len(f.rows) |-> DropMask(f, drop_conditions, i)])

\* df.rename(columns=column_renames)
RenameColumns(f, column_renames) ==
    [f EXCEPT !.columns = [j \in 1..Len(f.columns) |->
                              IF f.columns[j] \in DOMAIN column_renames
                              THEN column_renames[f.columns[j]]
                              ELSE f.columns[j]]]

\* pd.to_datetime(errors='coerce') of one cell
ToDatetime(c) == IF IsNumber(c) THEN "T" \o c ELSE IF IsDate(c) THEN c ELSE NONE
\* astype(str).str.lower().isin(["true", "1", "yes", "y"])
ToBoolHint(c) == IF Str(c) \in {"true", "1", "yes", "y"} THEN "True" ELSE "False"

TypeHintColumn(f, j, type_hint) ==
    CASE type_hint \in {"INT", "INTEGER", "BIGINT", "SMALLINT"} -> MapColumn(f, j, ToNumeric)
      [] type_hint \in {"DECIMAL", "NUMERIC", "DOUBLE", "FLOAT"} -> MapColumn(f, j, ToNumeric)
      [] type_hint \in {"DATE", "DATETIME"} -> MapColumn(f, j, ToDatetime)
      [] type_hint \in {"BOOL", "BOOLEAN"} -> MapColumn(f, j, ToBoolHint)
      [] OTHER -> f

RECURSIVE ApplyTypeHintsFrom(_, _, _)
ApplyTypeHintsFrom(f, type_hints, todo) ==
    IF todo = {} THEN f
    ELSE LET col_name == CHOOSE c \in todo : TRUE
         IN ApplyTypeHintsFrom(
                IF ColumnIndex(f, col_name) = 0 THEN f
                ELSE TypeHintColumn(f, ColumnIndex(f, col_name), type_hints[col_name]),
                type_hints, todo \ {col_name})

ApplyTypeHints(f, type_hints) == ApplyTypeHintsFrom(f, type_hints, DOMAIN type_hints)

RECURSIVE NamesNotIn(_, _)
\* [col for col in df.columns if col not in id_vars]
NamesNotIn(columns, id_vars) ==
    IF columns = <<>> THEN <<>>
    ELSE (IF Head(columns) \in Range(id_vars) THEN <<>> ELSE <<Head(columns)>>)
         \o NamesNotIn(Tail(columns), id_vars)

\* df.melt(id_vars, value_vars, var_name, value_name); [ok |-> FALSE] is the
\* KeyError pandas raises for a name that is no column
ApplyUnpivot(f, unpivot) ==
    LET value_vars == IF unpivot.value_vars = <<>>
                      THEN NamesNotIn(f.columns, unpivot.id_vars)
                      ELSE unpivot.value_vars
        n == Len(f.rows)
        k == Len(unpivot.id_vars)
    IN IF \E name \in Range(unpivot.id_vars) \cup Range(value_vars) :
              ColumnIndex(f, name) = 0
       THEN [ok |-> FALSE, frame |-> EmptyFrame]
       ELSE [ok |-> TRUE,
             frame |->
               [columns |-> unpivot.id_vars \o <<unpivot.var_name, unpivot.value_name>>,
                rows |-> [m \in 1..(n * Len(value_vars)) |->
                    LET v == ((m - 1) \div n) + 1
                        i == ((m - 1) % n) + 1
                    IN [j \in 1..(k + 2) |->
                          IF j <= k THEN f.rows[i][ColumnIndex(f, unpivot.id_vars[j])]
                          ELSE IF j = k + 1 THEN value_vars[v]
                          ELSE f.rows[i][ColumnIndex(f, value_vars[v])]]],
                src |-> [m \in 1..(n * Len(value_vars)) |-> f.src[((m - 1) % n) + 1]],
                col_src |-> <<>>,
                header_src |-> f.header_src]]

\* the chain both ASSISTED branches that transform run, in the order of the code
ApplyTransformations(f, o) ==
    LET dropped == ApplyDropConditions(ApplyDropRegex(f, o.drop_regex), o.drop_conditions)
        renamed == IF DOMAIN o.column_renames # {}
                   THEN RenameColumns(dropped, o.column_renames) ELSE dropped
        typed == IF DOMAIN o.type_hints # {}
                 THEN ApplyTypeHints(renamed, o.type_hints) ELSE renamed
    IN IF o.unpivot # <<>> THEN ApplyUnpivot(typed, o.unpivot)
       ELSE [ok |-> TRUE, frame |-> typed]

----------------------------------------------------------------------------
(* ExcelLoader (loading/loader.py).  The files of the model are native     *)
(* workbooks (.xlsx).  A SheetOverride is a record; present = FALSE is the *)
(* override None.  Optional[int] is <<>> or <<n>>, a range "" / None is    *)
(* NoRange, merge_handling None is "None" and otherwise its strategy.      *)

Alias == "test"

DefaultOverride ==
    [present |-> TRUE, skip_rows |-> 0, header_rows |-> 1, skip_footer |-> 0,
     range |-> NoRange, drop_regex |-> "", column_renames |-> <<>>,
     type_hints |-> <<>>, unpivot |-> <<>>, auto_detect |-> FALSE,
     merge_handling |-> "None", include_hidden |-> FALSE, locale |-> "None",
     drop_conditions |-> <<>>, extract_table |-> <<>>, table_range |-> NoRange]

NoOverride == [DefaultOverride EXCEPT !.present = FALSE]

ColumnLetter(i) == CharAt(UpperChars, i)   \* openpyxl.utils.get_column_letter

\* DuckDB's read_xlsx(header=..., all_varchar=true[, range=...]).df(), the
\* spreadsheet-reading capability the loader consumes
ReadXlsx(w, has_header, range) ==
    LET read == IF range # NoRange THEN SortedSeq(range[1]..range[3])
                ELSE SortedSeq(1..MaxRow(w))
        cols == IF range # NoRange THEN SortedSeq(range[2]..range[4])
                ELSE SortedSeq(1..MaxColumn(w))
        headers == IF has_header THEN TakeFirst(read, 1) ELSE <<>>
        body == IF has_header THEN DropFirst(read, 1) ELSE read
    IN [columns |-> [j \in 1..Len(cols) |->
                        IF has_header /\ CellValue(w, read[1], cols[j]) # NONE
                        THEN CellValue(w, read[1], cols[j])
                        ELSE ColumnLetter(cols[j])],
        rows |-> [i \in 1..Len(body) |->
                     [j \in 1..Len(cols) |-> CellValue(w, body[i], cols[j])]],
        src |-> body, col_src |-> cols, header_src |-> headers]

\* the frame _load_multirow_header builds from the headerless read df_raw
MultirowHeaderFrame(w, o, df_raw) ==
    LET kept == IF o.skip_rows > 0 THEN DropFirst(df_raw.src, o.skip_rows)
                ELSE df_raw.src
        header_rows == TakeFirst(kept, o.header_rows)
        data_rows == DropFirst(kept, o.header_rows)
    IN [columns |-> [j \in 1..Len(df_raw.col_src) |->
                        HeaderName(w, header_rows, df_raw.col_src[j], j - 1, "__")],
        rows |-> [i \in 1..Len(data_rows) |->
                     [j \in 1..Len(df_raw.col_src) |->
                         CellValue(w, data_rows[i], df_raw.col_src[j])]],
        src |-> data_rows, col_src |-> df_raw.col_src, header_src |-> header_rows]

LoadMultirowHeader(w, o) == MultirowHeaderFrame(w, o, ReadXlsx(w, FALSE, o.range))

\* the direct path of _load_assisted after read_xlsx: skip_rows and skip_footer
\* by position, then the transformations
DirectFrame(direct, o) ==
    LET skipped == IF o.skip_rows > 0 /\ o.range = NoRange /\ o.header_rows <= 1
                   THEN SelectRows(direct, [i \in 1..Len(direct.rows) |-> i > o.skip_rows])
                   ELSE direct
        footed == IF o.skip_footer > 0
                  THEN SelectRows(skipped, [i \in 1..Len(skipped.rows) |->
                                               i <= Len(skipped.rows) - o.skip_footer])
                  ELSE skipped
    IN ApplyTransformations(footed, o)

\* the options _load_assisted hands to the format manager
ParseOptions(o) ==
    [skip_rows |-> o.skip_rows, header_rows |-> o.header_rows,
     skip_footer |-> o.skip_footer,
     merge_strategy |-> IF o.merge_handling # "None" THEN o.merge_handling ELSE "fill",
     ignore_hidden |-> ~o.include_hidden,
     range |-> o.range]

\* the DataFrame _load_assisted builds before it registers the view
AssistedFrame(w, o) ==
    LET use_format_manager == ~o.include_hidden \/ o.merge_handling # "None"
    IN IF use_format_manager
       THEN ApplyTransformations(Normalize(ParseXlsx(w, ParseOptions(o))), o)
       ELSE IF o.header_rows > 1
       THEN [ok |-> TRUE, frame |-> LoadMultirowHeader(w, o)]
       ELSE DirectFrame(ReadXlsx(w, o.header_rows > 0, o.range), o)

TableMeta(table_name, w, mode, est_rows) ==
    [table_name |-> table_name, relpath |-> w.relpath, sheet |-> w.sheet,
     mode |-> mode, alias |-> Alias, est_rows |-> est_rows]

\* _load_assisted: `raises` is an exception of the environment (file, DuckDB);
\* every exception leaves as one RuntimeError
AssistedResult(w, table_name, built, raises) ==
    IF raises \/ ~built.ok THEN [ok |-> FALSE]
    ELSE [ok |-> TRUE, frame |-> built.frame,
          meta |-> TableMeta(table_name, w, "ASSISTED", Len(built.frame.rows))]

LoadAssisted(w, table_name, o, raises) ==
    AssistedResult(w, table_name, AssistedFrame(w, o), raises)

\* _load_raw: the whole sheet, header=false, all_varchar=true
LoadRaw(w, table_name, raises) ==
    LET df == ReadXlsx(w, FALSE, NoRange)
    IN IF raises THEN [ok |-> FALSE]
       ELSE [ok |-> TRUE, frame |-> df,
             meta |-> TableMeta(table_name, w, "RAW", Len(df.rows))]

\* the region-scoped override _load_table_range synthesises
RangeOverride(o, table_info) ==
    [present |-> TRUE, skip_rows |-> 0,
     header_rows |-> IF table_info.has_header THEN 1 ELSE 0,
     skip_footer |-> 0,
     range |-> <<table_info.start_row, table_info.start_col,
                 table_info.end_row, table_info.end_col>>,
     drop_regex |-> o.drop_regex, column_renames |-> o.column_renames,
     type_hints |-> o.type_hints, unpivot |-> o.unpivot, auto_detect |-> FALSE,
     merge_handling |-> o.merge_handling, include_hidden |-> o.include_hidden,
     locale |-> o.locale, drop_conditions |-> o.drop_conditions,
     extract_table |-> <<>>, table_range |-> NoRange]

LoadTableRange(w, table_name, o, table_info, raises) ==
    LoadAssisted(w, table_name, RangeOverride(o, table_info), raises)

MergeOverrideWithDetection(o, info) ==
    [present |-> TRUE,
     skip_rows |-> IF o.skip_rows > 0 THEN o.skip_rows ELSE info.suggested_skip_rows,
     header_rows |-> o.header_rows,
     skip_footer |-> IF o.skip_footer > 0 THEN o.skip_footer
                     ELSE info.suggested_skip_footer,
     range |-> o.range, drop_regex |-> o.drop_regex,
     column_renames |-> o.column_renames, type_hints |-> o.type_hints,
     unpivot |-> o.unpivot, auto_detect |-> o.auto_detect,
     merge_handling |-> IF o.merge_handling # "None" THEN o.merge_handling
                        ELSE IF info.merged_ranges # {} THEN "fill" ELSE "None",
     include_hidden |-> o.include_hidden, locale |-> o.locale,
     drop_conditions |-> o.drop_conditions,
     extract_table |-> o.extract_table, table_range |-> o.table_range]


\* The state a load works on is st = [names, counts, views]; a load gives
\* back [raised, metas, names, counts, views].
WithView(v, table_name, df) ==
    [n \in DOMAIN v \cup {table_name} |-> IF n = table_name THEN df ELSE v[n]]

\* the outcome of one registered load: res is what _load_assisted, _load_raw
\* or _load_table_range gave for the name registered by reg
Outcome(reg, v, res) ==
    IF res.ok
    THEN [raised |-> FALSE, metas |-> <<res.meta>>, names |-> reg.names,
          counts |-> reg.counts, views |-> WithView(v, reg.name, res.frame)]
    ELSE [raised |-> TRUE, metas |-> <<>>, names |-> reg.names,
          counts |-> reg.counts, views |-> v]

\* a variant that counts the regions from one
TableNameSuffixFromOne(info, idx) ==
    IF Len(info.table_ranges) > 1 THEN "_table" \o ToString(idx + 1) ELSE ""

TableNameSuffix(info, idx) ==
    IF Len(info.table_ranges) > 1 THEN "_table" \o ToString(idx) ELSE ""

\* load_sheet and _load_multi_table register a name and then load under it
AssistedOutcome(w, o, flt, v, reg) ==
    Outcome(reg, v, LoadAssisted(w, reg.name, o, flt.sheet))

RawOutcome(w, flt, v, reg) == Outcome(reg, v, LoadRaw(w, reg.name, flt.raw))

RangeOutcome(w, o, info, flt, v, table_idx, reg) ==
    Outcome(reg, v, LoadTableRange(w, reg.name, o, info.table_ranges[table_idx + 1],
                                   table_idx \in flt.regions))

\* one pass of the for loop of _load_multi_table: out is what loading the
\* region registered by reg gave; a region that raised is skipped
CollectRegion(acc, out) ==
    [raised |-> FALSE,
     metas |-> IF out.raised THEN acc.metas ELSE acc.metas \o out.metas,
     names |-> out.names, counts |-> out.counts, views |-> out.views]

LoadRegion(w, o, info, flt, idx, acc) ==
    CollectRegion(acc,
        RangeOutcome(w, o, info, flt, acc.views, idx,
            Register(acc.names, acc.counts, Alias, w.relpath,
                     w.sheet \o TableNameSuffix(info, idx), 0)))

RECURSIVE LoadRegionsFrom(_, _, _, _, _, _)
\* the for loop of _load_multi_table from region idx on; acc collects the
\* metas and the registry and views so far
LoadRegionsFrom(w, o, info, flt, idx, acc) ==
    IF idx >= Len(info.table_ranges) THEN acc
    ELSE LoadRegionsFrom(w, o, info, flt, idx + 1, LoadRegion(w, o, info, flt, idx, acc))

\* mutant: an index out of range selects the last region
ClampTableIndexToLast(n, num_tables) ==
    IF n < 0 \/ n >= num_tables THEN num_tables - 1 ELSE n

\* the index _load_multi_table extracts for extract_table = <<n>>
ClampTableIndex(n, num_tables) == IF n < 0 \/ n >= num_tables THEN 0 ELSE n

\* the branch of _load_multi_table for extract_table, table_idx already clamped
ExtractTable(w, o, info, flt, st, table_idx) ==
    RangeOutcome(w, o, info, flt, st.views, table_idx,
        Register(st.names, st.counts, Alias, w.relpath,
                 w.sheet \o TableNameSuffix(info, table_idx), 0))

\* the return of _load_multi_table after its loop: the metas collected, or a
\* raw load of the whole sheet when no region loaded
LoopedOrRaw(w, flt, looped) ==
    IF looped.metas # <<>> THEN looped
    ELSE RawOutcome(w, flt, looped.views,
             Register(looped.names, looped.counts, Alias, w.relpath, w.sheet, 0))

LoadMultiTable(w, o, info, flt, st) ==
    IF o.table_range # NoRange
    THEN AssistedOutcome(w, o, flt, st.views,
             Register(st.names, st.counts, Alias, w.relpath, w.sheet, 0))
    ELSE IF o.extract_table # <<>>
    THEN ExtractTable(w, o, info, flt, st,
             ClampTableIndex(o.extract_table[1], Len(info.table_ranges)))
    ELSE LoopedOrRaw(w, flt,
             LoadRegionsFrom(w, o, info, flt, 0,
                 [raised |-> FALSE, metas |-> <<>>, names |-> st.names,
                  counts |-> st.counts, views |-> st.views]))

\* load_sheet once the structure was analysed (has_info) and merged into the
\* effective override
LoadEffective(w, effective, info, has_info, flt, st) ==
    IF effective.present /\ has_info /\ info.num_tables > 1
    THEN LoadMultiTable(w, effective, info, flt, st)
    ELSE IF effective.present
    THEN AssistedOutcome(w, effective, flt, st.views,
             Register(st.names, st.counts, Alias, w.relpath, w.sheet, 0))
    ELSE RawOutcome(w, flt, st.views,
             Register(st.names, st.counts, Alias, w.relpath, w.sheet, 0))

LoadAnalysed(w, o, info, has_info, flt, st) ==
    LoadEffective(w, IF has_info THEN MergeOverrideWithDetection(o, info) ELSE o,
                  info, has_info, flt, st)

\* load_sheet.  flt.analysis is "ok", "parse" (the workbook cannot be analysed:
\* analyze_structure returns its default) or "stat" (file.stat() raises before
\* the analyzer's own handler: load_sheet keeps the override and no structure)
LoadSheet(w, o, flt, st) ==
    LoadAnalysed(w, o, AnalyzeStructure(w, flt.analysis = "parse"),
                 o.present /\ o.auto_detect /\ flt.analysis # "stat", flt, st)

----------------------------------------------------------------------------
(* Operations                                                              *)

Paths == {"book.xlsx", "data.xlsx"}

NoThread == "none"
FreeLock == [owner |-> NoThread, count |-> 0]

\* no directory was loaded
NoServer == catalog = <<>> /\ files = <<>> /\ load_configs = <<>>

\* one call from one thread on objects nobody shares
SingleCaller ==
    /\ call = [file_path |-> "book.xlsx", sheet |-> "Sheet"]
    /\ mtime = [p \in Paths |-> 1]
    /\ history = <<>>
    /\ threads = <<>>
    /\ NoServer
    /\ lock = FreeLock

NoFaults == [analysis |-> "ok", regions |-> {}, sheet |-> FALSE, raw |-> FALSE]
NothingReturned == [op |-> "none"]

\* ExcelLoader.load_sheet(file, relpath, sheet, alias, override)
LoadSheetCall ==
    /\ pc = "idle"
    /\ \E out \in {LoadSheet(ws, override, faults,
                            [names |-> names, counts |-> collision_counts,
                             views |-> views])} :
          /\ names' = out.names
          /\ collision_counts' = out.counts
          /\ views' = out.views
          /\ returned' = [op |-> "load_sheet", raised |-> out.raised,
                          metas |-> out.metas]
    /\ pc' = "done"
    /\ UNCHANGED <<ws, override, explicit, faults, structure_info, frame, conditions, server_vars>>
    /\ UNCHANGED <<cache, shared_vars>>

\* ExcelAnalyzer.analyze_structure(file_path, sheet); file_path.stat() and the
\* cache lookup run before the try block, so a failing stat() raises
AnalyzeStructureCall ==
    /\ pc = "idle"
    /\ IF faults.analysis = "stat"
       THEN /\ returned' = [op |-> "analyze_structure", raised |-> TRUE]
            /\ UNCHANGED <<structure_info, cache>>
       ELSE \E key \in {CacheKey(call.file_path, call.sheet, mtime[call.file_path])} :
            \E out \in {AnalyzeWithCache(ws, faults.analysis = "parse", cache, key,
                                         CacheGet(cache, key), CacheSize)} :
                /\ structure_info' = out.info
                /\ cache' = out.cache
                /\ returned' = [op |-> "analyze_structure", raised |-> FALSE]
    /\ pc' = "done"
    /\ UNCHANGED <<ws, override, explicit, faults, names, collision_counts, views,
                   frame, conditions, server_vars, shared_vars>>

\* ExcelLoader._apply_drop_conditions(df, drop_conditions)
ApplyDropConditionsCall ==
    /\ pc = "idle"
    /\ returned' = [op |-> "_apply_drop_conditions",
                    df |-> ApplyDropConditions(frame, conditions)]
    /\ pc' = "done"
    /\ UNCHANGED <<ws, override, explicit, faults, names, collision_counts, views,
                   structure_info, frame, conditions, server_vars>>
    /\ UNCHANGED <<cache, shared_vars>>

\* ExcelLoader._merge_override_with_detection(override, structure_info)
MergeOverrideCall ==
    /\ pc = "idle"
    /\ returned' = [op |-> "_merge_override_with_detection",
                    merged |-> MergeOverrideWithDetection(override, structure_info)]
    /\ pc' = "done"
    /\ UNCHANGED <<ws, override, explicit, faults, names, collision_counts, views,
                   structure_info, frame, conditions, server_vars>>
    /\ UNCHANGED <<cache, shared_vars>>

----------------------------------------------------------------------------
(* Worksheets of the model                                                 *)

Blank == <<NONE, NONE>>
TextRow == <<"a", "a">>       \* a row of text cells, e.g. a header
MixedRow == <<"a", "1">>      \* text and a number, e.g. ("Widget", 100)
TextNumberRow == <<"a", "'1">>  \* the number written as text, e.g. ("Widget", "100")
NumberRow == <<"1", "1">>
RowKinds == {TextRow, MixedRow, NumberRow}
DataRowKinds == RowKinds \cup {TextNumberRow}

Sheet(cells, hidden_rows) ==
    [cells |-> cells, hidden_rows |-> hidden_rows, hidden_cols |-> {},
     merged |-> {}, sheet |-> "Sheet", relpath |-> "book.xlsx"]

MaxBlockRows == 2
MaxGap == 4
MaxBlockGap == 2

\* two blocks of rows separated by a run of blank rows
TwoBlockSheets ==
    {Sheet(b1 \o Repeat(Blank, gap) \o b2, {}) :
        gap \in 0..MaxBlockGap,
        b1 \in SeqsUpTo(RowKinds, MaxBlockRows) \ {<<>>},
        b2 \in SeqsUpTo(RowKinds, MaxBlockRows)}

\* two mini-tables, a header row and one data row each, a run of blank rows apart
MiniTableSheets ==
    {Sheet(<<TextRow, d1>> \o Repeat(Blank, gap) \o <<TextRow, d2>>, {}) :
        gap \in 0..MaxGap, d1 \in DataRowKinds, d2 \in DataRowKinds}

\* the sheet w below a blank first row
WithBlankFirstRow(w) == [w EXCEPT !.cells = <<Blank>> \o @]

\* the sheet w below a title row and a hidden note row
WithHiddenNote(w) == [w EXCEPT !.cells = <<TextRow, TextRow>> \o @, !.hidden_rows = {2}]

\* the sheet w, and w with one of its rows hidden
WithOneHiddenRow(w) == {w} \cup {[w EXCEPT !.hidden_rows = {r}] : r \in 1..MaxRow(w)}

AutoDetect == [DefaultOverride EXCEPT !.auto_detect = TRUE]

NoFrame == EmptyFrame

Init ==
    /\ \/ \E w \in TwoBlockSheets :
              ws \in WithOneHiddenRow(w) \cup {WithBlankFirstRow(w), WithHiddenNote(w)}
       \/ ws \in MiniTableSheets
    /\ override = AutoDetect
    /\ explicit = {"auto_detect"}
    /\ faults = NoFaults
    /\ names = {}
    /\ collision_counts = <<>>
    /\ views = <<>>
    /\ structure_info = CreateDefaultStructureInfo
    /\ returned = NothingReturned
    /\ frame = NoFrame
    /\ conditions = <<>>
    /\ pc = "idle"
    /\ cache = <<>>
    /\ SingleCaller

Next == LoadSheetCall

Spec == Init /\ [][Next]_vars

----------------------------------------------------------------------------
(* Properties of load_sheet with auto-detection                            *)

Loaded == pc = "done" /\ returned.op = "load_sheet"
Detected == AnalyzeStructure(ws, FALSE)
\* the view behind the i-th returned TableMeta
ViewOf(i) == views[returned.metas[i].table_name]

\* rows inside the bounding box that are neither blank nor hidden
VisibleFilledRows(w) ==
    {r \in 1..MaxRow(w) : r \notin w.hidden_rows /\ NonEmpty(w.cells[r]) # {}}
\* the lengths of the runs of blank rows inside the bounding box
BlankRunLengths(w) ==
    LET filled == {r \in 1..MaxRow(w) : NonEmpty(w.cells[r]) # {}}
        inside == {r \in SetMin(filled)..SetMax(filled) : r \notin filled}
    IN {g[2] - g[1] + 1 : g \in {g \in inside \X inside :
                                   /\ g[1] <= g[2]
                                   /\ \A r \in g[1]..g[2] : r \in inside
                                   /\ (g[1] - 1) \notin inside
                                   /\ (g[2] + 1) \notin inside}}

TwoMiniTables(w, d1, d2) ==
    /\ w.cells = <<TextRow, d1>> \o Repeat(Blank, 4) \o <<TextRow, d2>>
    /\ w.hidden_rows = {}

\* C1: a sheet of two mini-tables (a header row and one data row each, the
\* data cells numbers or text) separated by 4 blank rows, loaded with
\* auto_detect=true and header_rows=1, gives exactly 2 TableMeta; the first
\* table holds exactly data row 2 and the second exactly data row 8.
C1_TwoMiniTablesSplit ==
    (Loaded /\ override = AutoDetect /\ faults = NoFaults
       /\ \E d1, d2 \in DataRowKinds : TwoMiniTables(ws, d1, d2))
    => /\ ~returned.raised
       /\ Len(returned.metas) = 2
       /\ ViewOf(1).src = <<2>> /\ returned.metas[1].est_rows = 1
       /\ ViewOf(2).src = <<8>> /\ returned.metas[2].est_rows = 1
       /\ returned.metas[1].table_name # returned.metas[2].table_name

C1_Witness ==
    /\ Loaded /\ override = AutoDetect /\ faults = NoFaults
    /\ TwoMiniTables(ws, TextNumberRow, MixedRow)
    /\ Len(returned.metas) = 2
    /\ ViewOf(1).src = <<2>> /\ ViewOf(2).src = <<8>>

\* every run of blank rows inside the bounding box has length 1, and there is one
SingleBlankRowsOnly(w) == BlankRunLengths(w) = {1}

\* the rows below the detected header that hold a value and are not hidden
DataRowsBelowHeader(w) == {r \in VisibleFilledRows(w) : r > Detected.header_row}

\* C2: on a sheet whose runs of blank rows all have length 1, detection
\* reports at most one table and load_sheet with auto_detect=true returns
\* exactly one table, which holds the data rows on both sides of each blank
\* row (stated for the sheets on which a header is detected: the data rows
\* are the filled rows below it).
C2_SingleBlankRowNeverSplits ==
    (Loaded /\ override = AutoDetect /\ faults = NoFaults
       /\ SingleBlankRowsOnly(ws) /\ Detected.header_row # NoRow)
    => /\ Detected.num_tables <= 1
       /\ ~returned.raised
       /\ Len(returned.metas) = 1
       /\ DataRowsBelowHeader(ws) \subseteq Range(ViewOf(1).src)

\* no run of 2 or more blank rows inside the bounding box
NoBlankGap(w) == \A n \in BlankRunLengths(w) : n < 2

\* C3: on a sheet with no run of 2 or more blank rows, detection yields
\* exactly one table and it is the table single-table auto-detect loading
\* produces: same header row, same data rows, same columns.
C3_OneTableAsSingleTableLoad ==
    (Loaded /\ override = AutoDetect /\ faults = NoFaults
       /\ VisibleFilledRows(ws) # {} /\ NoBlankGap(ws))
    => /\ Detected.num_tables = 1
       /\ ~returned.raised
       /\ Len(returned.metas) = 1
       /\ ViewOf(1).header_src = <<Detected.table_ranges[1].header_row>>
       /\ Range(ViewOf(1).src) =
              {r \in VisibleFilledRows(ws) :
                  /\ r > Detected.table_ranges[1].start_row
                  /\ r <= Detected.table_ranges[1].end_row}
       /\ Range(ViewOf(1).col_src) =
              Detected.table_ranges[1].start_col .. Detected.table_ranges[1].end_col

----------------------------------------------------------------------------
(* analyze_structure on tall sheets: a run of number rows, then a few rows  *)
(* of any kind                                                             *)

MaxFillRows == 11
MaxTailRows == 2

TallSheets ==
    {Sheet(Repeat(NumberRow, fill) \o tail, {}) :
        fill \in 0..MaxFillRows,
        tail \in SeqsUpTo(RowKinds \cup {Blank}, MaxTailRows) \ {<<>>}}

AnalysisFails == [NoFaults EXCEPT !.analysis = "parse"]

InitAnalyze ==
    /\ ws \in TallSheets
    /\ override = NoOverride
    /\ explicit = {}
    /\ faults \in {NoFaults, AnalysisFails}
    /\ names = {}
    /\ collision_counts = <<>>
    /\ views = <<>>
    /\ structure_info = CreateDefaultStructureInfo
    /\ returned = NothingReturned
    /\ frame = NoFrame
    /\ conditions = <<>>
    /\ pc = "idle"
    /\ cache = <<>>
    /\ SingleCaller

NextAnalyze == AnalyzeStructureCall

SpecAnalyze == InitAnalyze /\ [][NextAnalyze]_vars

Analyzed == pc = "done" /\ returned.op = "analyze_structure" /\ faults = NoFaults

\* the bounding box of a sheet without hidden rows: first and last filled row
FirstFilledRow(w) == SetMin({r \in 1..MaxRow(w) : NonEmpty(w.cells[r]) # {}})
LastFilledRow(w) == SetMax({r \in 1..MaxRow(w) : NonEmpty(w.cells[r]) # {}})
\* every filled cell of row r is text, and there is one
AllText(w, r) ==
    /\ \E c \in 1..MaxColumn(w) : w.cells[r][c] # NONE
    /\ \A c \in 1..MaxColumn(w) : w.cells[r][c] = NONE \/ w.cells[r][c] \notin Numbers
\* the row beneath r holds a number
NumericRowBeneath(w, r) ==
    r < MaxRow(w) /\ \E c \in 1..MaxColumn(w) : w.cells[r + 1][c] \in Numbers
\* the rows the specification lets qualify, among the first 10 of the bounding box
QualifyingRows(w) ==
    {r \in FirstFilledRow(w)..LastFilledRow(w) :
        /\ r < FirstFilledRow(w) + 10
        /\ AllText(w, r)
        /\ (NumericRowBeneath(w, r) \/ r = LastFilledRow(w))}

\* C4: header detection scans the first 10 rows of the bounding box and takes
\* the first row whose filled cells are all text and whose next row holds a
\* number or which is the box's last row; header_confidence is 0.9 only when
\* a numeric row beneath validates the header, and in every other case the
\* result is confidence 0.0 with header_row None.
C4_HeaderConfidenceValidated ==
    (Analyzed /\ \E r \in 1..MaxRow(ws) : NonEmpty(ws.cells[r]) # {})
    => /\ structure_info.header_row =
              (IF QualifyingRows(ws) = {} THEN NoRow ELSE SetMin(QualifyingRows(ws)))
          \/ structure_info.header_row = NoRow
       /\ structure_info.header_confidence = HighConfidence
              => /\ structure_info.header_row # NoRow
                 /\ NumericRowBeneath(ws, structure_info.header_row)
       /\ structure_info.header_confidence # HighConfidence
              => /\ structure_info.header_confidence = NoConfidence
                 /\ structure_info.header_row = NoRow

----------------------------------------------------------------------------
(* load_sheet on sheets of several tables, with a selection and with loads *)
(* that fail                                                               *)

MaxTables == 3
MaxExtractIndex == 3

RECURSIVE MiniTables(_, _)
\* k tables of a header row and a data row, gap blank rows between them
MiniTables(k, gap) ==
    IF k = 0 THEN <<>>
    ELSE IF k = 1 THEN <<TextRow, MixedRow>>
    ELSE MiniTables(k - 1, gap) \o Repeat(Blank, gap) \o <<TextRow, MixedRow>>

MultiTableSheets ==
    {Sheet(MiniTables(k, gap), {}) : k \in 1..MaxTables, gap \in MinSeparatorRows..MaxGap}

FirstTableRange == <<1, 1, 2, 2>>     \* table_range "A1:B2"

SelectOverrides ==
    {[AutoDetect EXCEPT !.extract_table = e, !.table_range = t] :
        e \in {<<>>} \cup {<<n>> : n \in -1..MaxExtractIndex},
        t \in {NoRange, FirstTableRange}}

SelectFaults ==
    {[analysis |-> "ok", regions |-> failing, sheet |-> s, raw |-> r] :
        failing \in SUBSET (0..(MaxTables - 1)), s \in BOOLEAN, r \in BOOLEAN}
    \cup {[NoFaults EXCEPT !.analysis = a] : a \in {"parse", "stat"}}

InitSelect ==
    /\ ws \in MultiTableSheets
    /\ override \in SelectOverrides
    /\ explicit = {f \in DOMAIN override : override[f] # DefaultOverride[f]}
    /\ faults \in SelectFaults
    /\ names = {}
    /\ collision_counts = <<>>
    /\ views = <<>>
    /\ structure_info = CreateDefaultStructureInfo
    /\ returned = NothingReturned
    /\ frame = NoFrame
    /\ conditions = <<>>
    /\ pc = "idle"
    /\ cache = <<>>
    /\ SingleCaller

NextSelect == LoadSheetCall

SpecSelect == InitSelect /\ [][NextSelect]_vars

\* the i-th detected region (0-based, as extract_table counts)
Region(i) == Detected.table_ranges[i + 1]
\* the view v is the table of the region: its header row and the filled rows below
IsRegionTable(v, region) ==
    /\ v.header_src = <<region.header_row>>
    /\ Range(v.src) = {r \in (region.start_row + 1)..region.end_row :
                          NonEmpty(ws.cells[r]) # {}}
    /\ Range(v.col_src) = region.start_col..region.end_col

MultiTableLoad == Loaded /\ faults.analysis = "ok" /\ Detected.num_tables > 1
OutOfRange(e) == e # <<>> /\ (e[1] < 0 \/ e[1] >= Detected.num_tables)

\* what C5 promises of a load
ClampedToFirstRegion ==
    /\ returned.raised => 0 \in faults.regions
    /\ ~returned.raised =>
          /\ Len(returned.metas) = 1
          /\ IsRegionTable(ViewOf(1), Region(0))
          /\ DOMAIN views = {returned.metas[1].table_name}

RectangleRows(rect) == rect[1]..rect[3]
RectangleColumns(rect) == rect[2]..rect[4]

\* C6: when table_range is set, with or without extract_table, load_sheet
\* returns exactly one table, produces no per-region table, and the table's
\* rows are exactly the rows of the table_range rectangle.
C6_TableRangeWins ==
    (Loaded /\ override.table_range # NoRange /\ faults = NoFaults)
    => /\ ~returned.raised
       /\ Len(returned.metas) = 1
       /\ DOMAIN views = {returned.metas[1].table_name}
       /\ Range(ViewOf(1).header_src) \cup Range(ViewOf(1).src)
              = {r \in RectangleRows(override.table_range) : NonEmpty(ws.cells[r]) # {}}
       /\ Range(ViewOf(1).col_src) = RectangleColumns(override.table_range)

\* the regions a multi-table load selects: the one extract_table names
\* (index 0 when it is out of range), or all of them
SelectedRegions ==
    IF override.extract_table = <<>> THEN 0..(Detected.num_tables - 1)
    ELSE IF OutOfRange(override.extract_table) THEN {0}
    ELSE {override.extract_table[1]}
\* the selected regions whose load does not raise, in increasing order
LoadableRegions == SortedSeq(SelectedRegions \ faults.regions)

\* C7: in multi-table loading a region whose load raises is skipped and the
\* other selected regions are loaded and returned; if every selected region
\* fails, load_sheet falls back to the whole sheet and returns one TableMeta
\* of mode RAW.  This for all regions and for the region extract_table selects.
C7_FailedRegionSkipped ==
    (MultiTableLoad /\ override.table_range = NoRange)
    => /\ LoadableRegions # <<>> =>
             /\ ~returned.raised
             /\ Len(returned.metas) = Len(LoadableRegions)
             /\ \A k \in 1..Len(LoadableRegions) :
                    IsRegionTable(ViewOf(k), Region(LoadableRegions[k]))
       /\ (LoadableRegions = <<>> /\ ~faults.raw) =>
             /\ ~returned.raised
             /\ Len(returned.metas) = 1
             /\ returned.metas[1].mode = "RAW"

\* C24: with include_hidden = false no worksheet row or column flagged
\* hidden contributes cells to any table load_sheet returns, on every load
\* path, range-restricted loads and the regions of a multi-table load included.
C24_HiddenNeverLoaded ==
    (Loaded /\ ~returned.raised /\ ~override.include_hidden)
    => \A k \in 1..Len(returned.metas) :
          /\ (Range(ViewOf(k).header_src) \cup Range(ViewOf(k).src)) \cap ws.hidden_rows = {}
          /\ Range(ViewOf(k).col_src) \cap ws.hidden_cols = {}

\* C28: with auto_detect, no explicit skip_rows and at most one detected
\* table, the row load_sheet turns into column names is the detected
\* header_row and the data rows are exactly the (visible, filled) rows after
\* it, wherever the bounding box lies: also when the first filled row is not
\* row 1 and when hidden or title rows lie above the header.
C28_LoadedHeaderIsDetectedHeader ==
    (Loaded /\ override = AutoDetect /\ faults = NoFaults
       /\ Detected.num_tables <= 1 /\ Detected.header_row # NoRow)
    => /\ ~returned.raised
       /\ Len(returned.metas) = 1
       /\ ViewOf(1).header_src = <<Detected.header_row>>
       /\ Range(ViewOf(1).src) = {r \in VisibleFilledRows(ws) : r > Detected.header_row}

\* the name a new registry issues for the sheet under the given sheet name
IssuedFor(sheet_name) == BuildAndSanitize(Alias, ws.relpath, sheet_name, 0)

\* the load went region by region: several tables detected, no table_range,
\* and not the whole-sheet fallback after every region failed
LoadedByRegion ==
    /\ MultiTableLoad /\ override.table_range = NoRange /\ ~returned.raised
    /\ \A k \in 1..Len(returned.metas) : returned.metas[k].mode # "RAW"

\* C26: in multi-table loading the table of the detected region with index i
\* is registered under the sheet name suffixed _table{i}, also when one
\* region is selected by extract_table; the suffix appears only when more
\* than one region is detected, and a sheet loaded as a single table never
\* gets a _table suffix.
C26_RegionNamesCarryIndex ==
    (Loaded /\ ~returned.raised)
    => IF LoadedByRegion
       THEN \A k \in 1..Len(returned.metas) :
               \E i \in 0..(Detected.num_tables - 1) :
                  /\ returned.metas[k].table_name
                        = IssuedFor(ws.sheet \o "_table" \o ToString(i))
                  /\ IsRegionTable(ViewOf(k), Region(i))
       ELSE /\ Len(returned.metas) = 1
            /\ returned.metas[1].table_name = IssuedFor(ws.sheet)

C26_Witness ==
    /\ LoadedByRegion /\ Detected.num_tables = 3
    /\ override.extract_table = <<>> /\ faults.regions = {1}
    /\ Len(returned.metas) = 2
    /\ returned.metas[1].table_name = "test.book.sheet_table0"
    /\ returned.metas[2].table_name = "test.book.sheet_table2"
    /\ IsRegionTable(ViewOf(2), Region(2))

\* C27: after any load_sheet call, whether it returns or raises, the names
\* newly issued by the registry during the call are exactly the table_name
\* values of the returned TableMeta list (none if it raises): no name stays
\* registered for a region or table that failed to load.
C27_IssuedNamesAreReturned ==
    Loaded => names = {returned.metas[k].table_name : k \in 1..Len(returned.metas)}

----------------------------------------------------------------------------
(* load_sheet with an override that transforms, on each ASSISTED path      *)

MaxDataRows == 2
MaxHeaderRows == 2

ValuedSheets ==
    {Sheet(<<<<"a", "b">>>> \o rows, {}) :
        rows \in SeqsUpTo({<<"a", "1">>, <<"b", "2">>, <<"b", "b">>}, MaxDataRows) \ {<<>>}}

NoUnpivot == <<>>
UnpivotByA ==
    [id_vars |-> <<"a">>, value_vars |-> <<>>, var_name |-> "variable",
     value_name |-> "value"]

AssistedOverrides ==
    {[DefaultOverride EXCEPT !.include_hidden = hidden, !.header_rows = h,
                             !.drop_regex = regex, !.drop_conditions = conds,
                             !.column_renames = renames, !.type_hints = hints,
                             !.unpivot = unpivot] :
        hidden \in BOOLEAN, h \in 1..MaxHeaderRows, regex \in {"", "^a"},
        conds \in {<<>>, <<[column |-> "a", op |-> "equals", value |-> "b"]>>},
        renames \in {<<>>, [c \in {"a"} |-> "x"]},
        hints \in {<<>>, [c \in {"b"} |-> "INT"]},
        unpivot \in {NoUnpivot, UnpivotByA}}

InitAssisted ==
    /\ ws \in ValuedSheets
    /\ override \in AssistedOverrides
    /\ explicit = {f \in DOMAIN override : override[f] # DefaultOverride[f]}
    /\ faults = NoFaults
    /\ names = {}
    /\ collision_counts = <<>>
    /\ views = <<>>
    /\ structure_info = CreateDefaultStructureInfo
    /\ returned = NothingReturned
    /\ frame = NoFrame
    /\ conditions = <<>>
    /\ pc = "idle"
    /\ cache = <<>>
    /\ SingleCaller

NextAssisted == LoadSheetCall

SpecAssisted == InitAssisted /\ [][NextAssisted]_vars

\* the override without its five transformations
Untransformed(o) ==
    [o EXCEPT !.drop_regex = "", !.drop_conditions = <<>>, !.column_renames = <<>>,
              !.type_hints = <<>>, !.unpivot = NoUnpivot]

\* the table the path of the override reads before any transformation
PathFrame == AssistedFrame(ws, Untransformed(override)).frame

\* the five transformations applied to f in the documented order
InClaimedOrder(f, o) ==
    LET filtered == ApplyDropRegex(f, o.drop_regex)
        conditioned == ApplyDropConditions(filtered, o.drop_conditions)
        renamed == RenameColumns(conditioned, o.column_renames)
        typed == ApplyTypeHints(renamed, o.type_hints)
    IN IF o.unpivot = NoUnpivot THEN [ok |-> TRUE, frame |-> typed]
       ELSE ApplyUnpivot(typed, o.unpivot)

\* C8: on every ASSISTED path (format layer, direct read, multi-row-header
\* path) the loaded table is the path's table with drop_regex, then
\* drop_conditions, then column renames, then type hints, then unpivot applied.
C8_TransformationsOnEveryPath ==
    Loaded => /\ returned.raised <=> ~InClaimedOrder(PathFrame, override).ok
              /\ ~returned.raised =>
                    /\ returned.metas[1].mode = "ASSISTED"
                    /\ ViewOf(1) = InClaimedOrder(PathFrame, override).frame

----------------------------------------------------------------------------
(* _apply_drop_conditions on a table and a list of conditions              *)

MaxFrameRows == 3
MaxConditions == 2

DropFrames ==
    {[columns |-> <<"Status", "Notes">>, rows |-> rows,
      src |-> [i \in 1..Len(rows) |-> i], col_src |-> <<1, 2>>, header_src |-> <<>>] :
        rows \in SeqsUpTo({<<"a", "1">>, <<"b", NONE>>, <<NONE, "2">>}, MaxFrameRows)}

DropConditions ==
    {[column |-> "Status", op |-> "equals", value |-> "a"],
     [column |-> "Status", op |-> "regex", value |-> "^b"],
     [column |-> "Status", op |-> "regex", value |-> InvalidRegex],
     [column |-> "Notes", op |-> "is_null", value |-> "True"],
     [column |-> "Missing", op |-> "equals", value |-> "a"],   \* unknown column
     [column |-> "", op |-> "equals", value |-> "a"],          \* no column key
     [column |-> "Status", op |-> "between", value |-> "a"]}   \* unknown operator

InitDrop ==
    /\ frame \in DropFrames
    /\ conditions \in SeqsUpTo(DropConditions, MaxConditions)
    /\ ws = Sheet(<<Blank>>, {})
    /\ override = NoOverride
    /\ explicit = {}
    /\ faults = NoFaults
    /\ names = {}
    /\ collision_counts = <<>>
    /\ views = <<>>
    /\ structure_info = CreateDefaultStructureInfo
    /\ returned = NothingReturned
    /\ pc = "idle"
    /\ cache = <<>>
    /\ SingleCaller

NextDrop == ApplyDropConditionsCall

SpecDrop == InitDrop /\ [][NextDrop]_vars

\* condition k names a column of the table and its test accepts row i
MatchedBy(k, i) ==
    /\ conditions[k].column \in Range(frame.columns)
    /\ conditions[k].op \in {"equals", "regex", "is_null"}
    /\ ConditionMask(frame, conditions[k], i)
\* the rows no condition matches, in their original order
UnmatchedRows ==
    SortedSeq({i \in 1..Len(frame.rows) :
                  ~\E k \in 1..Len(conditions) : MatchedBy(k, i)})

\* C9: drop_conditions removes exactly the rows matched by at least one
\* condition whose column exists, keeps every other row in the original
\* order; a condition with an unknown column, without a column or with an
\* unknown operator removes no row.
C9_DropConditionsExact ==
    (pc = "done" /\ returned.op = "_apply_drop_conditions")
    => /\ returned.df.src = UnmatchedRows
       /\ returned.df.rows = [k \in 1..Len(UnmatchedRows) |-> frame.rows[UnmatchedRows[k]]]
       /\ returned.df.columns = frame.columns

C9_Witness ==
    /\ pc = "done" /\ returned.op = "_apply_drop_conditions"
    /\ Len(frame.rows) = 3
    /\ conditions = <<[column |-> "Missing", op |-> "equals", value |-> "a"],
                      [column |-> "Status", op |-> "regex", value |-> "^b"]>>
    /\ returned.df.src = <<1, 3>>

----------------------------------------------------------------------------
(* _merge_override_with_detection on an override and an analysis           *)

MaxSkip == 2

MergeOverrides ==
    {[DefaultOverride EXCEPT !.auto_detect = TRUE, !.skip_rows = skip,
                             !.skip_footer = footer, !.merge_handling = merge,
                             !.header_rows = h, !.drop_regex = regex,
                             !.extract_table = e] :
        skip \in 0..MaxSkip, footer \in 0..MaxSkip, merge \in {"None", "fill", "skip"},
        h \in 1..MaxHeaderRows, regex \in {"", "^a"}, e \in {<<>>, <<0>>}}

Suggestions ==
    {[CreateDefaultStructureInfo EXCEPT !.suggested_skip_rows = skip,
                                        !.suggested_skip_footer = footer,
                                        !.merged_ranges = merged] :
        skip \in 0..MaxSkip, footer \in 0..1, merged \in {{}, {<<1, 1, 1, 2>>}}}

InitMerge ==
    /\ override \in MergeOverrides
    \* a field the caller did not give holds its default
    /\ explicit \in {e \in SUBSET {"skip_rows", "skip_footer", "merge_handling"} :
                        \A f \in {"skip_rows", "skip_footer", "merge_handling"} \ e :
                            override[f] = DefaultOverride[f]}
    /\ structure_info \in Suggestions
    /\ ws = Sheet(<<Blank>>, {})
    /\ faults = NoFaults
    /\ names = {}
    /\ collision_counts = <<>>
    /\ views = <<>>
    /\ returned = NothingReturned
    /\ frame = NoFrame
    /\ conditions = <<>>
    /\ pc = "idle"
    /\ cache = <<>>
    /\ SingleCaller

NextMerge == MergeOverrideCall

SpecMerge == InitMerge /\ [][NextMerge]_vars

Merged == pc = "done" /\ returned.op = "_merge_override_with_detection"
SuggestibleFields == {"skip_rows", "skip_footer", "merge_handling"}

\* C10: merging the suggestions never overwrites a field the override set
\* explicitly: only unset skip_rows, skip_footer and merge_handling may take
\* a suggestion, every other field keeps the override's value.
C10_ExplicitFieldsWin ==
    Merged => /\ \A f \in DOMAIN override \ SuggestibleFields :
                    returned.merged[f] = override[f]
              /\ \A f \in explicit : returned.merged[f] = override[f]

----------------------------------------------------------------------------
(* One ExcelAnalyzer used for a series of analyses while the files change  *)

MaxMtime == 3

CachedSheets == {Sheet(<<TextRow, NumberRow>>, {}), Sheet(<<NumberRow, NumberRow>>, {})}

AnalysisFaults == {[NoFaults EXCEPT !.analysis = a] : a \in {"ok", "parse", "stat"}}

\* the file was rewritten: new content and a later st_mtime
TouchFile(p, w) ==
    /\ mtime[p] < MaxMtime
    /\ mtime' = [mtime EXCEPT ![p] = @ + 1]
    /\ ws' = w

\* the caller comes back for another analysis: between two calls the file
\* may be rewritten and the environment may start or stop failing
NextAnalysis ==
    /\ pc = "done"
    /\ \E p \in Paths :
          /\ call' = [call EXCEPT !.file_path = p]
          /\ \/ \E w \in CachedSheets : TouchFile(p, w)
             \/ UNCHANGED <<mtime, ws>>
    /\ faults' \in AnalysisFaults
    /\ pc' = "idle"
    /\ UNCHANGED <<override, explicit, names, collision_counts, views, structure_info,
                   returned, frame, conditions, server_vars, cache, history, threads, lock>>

InitCache ==
    /\ ws \in CachedSheets
    /\ override = NoOverride
    /\ explicit = {}
    /\ faults \in AnalysisFaults
    /\ names = {}
    /\ collision_counts = <<>>
    /\ views = <<>>
    /\ structure_info = CreateDefaultStructureInfo
    /\ returned = NothingReturned
    /\ frame = NoFrame
    /\ conditions = <<>>
    /\ pc = "idle"
    /\ cache = <<>>
    /\ call \in [file_path : Paths, sheet : {"Sheet"}]
    /\ mtime = [p \in Paths |-> 1]
    /\ history = <<>>
    /\ threads = <<>>
    /\ NoServer
    /\ lock = FreeLock

NextCache == AnalyzeStructureCall \/ NextAnalysis

SpecCache == InitCache /\ [][NextCache]_vars

\* the key (file path, sheet, modification time) of the call under way
CallKey ==
    call.file_path \o ":" \o call.sheet \o ":" \o ToString(mtime[call.file_path]) \o ".0"

\* C11: analyze_structure never propagates an exception; every failure during
\* the analysis, reading the file's modification time included, is turned
\* into the default StructureInfo (single cell 1:1, no header, confidence
\* 0.0, locale en_US, zero tables).
C11_AnalysisNeverRaises ==
    (/\ pc = "done" /\ returned.op = "analyze_structure"
     /\ \/ faults.analysis = "stat"
        \/ faults.analysis = "parse" /\ CallKey \notin CacheKeys(cache))
    => /\ ~returned.raised
       /\ structure_info = CreateDefaultStructureInfo

\* one call of analyze_structure, from its arguments to its return
AnalysisStep == pc = "idle" /\ pc' = "done"

\* every entry but the least recently used one of a full cache is still there
OldEntriesStay ==
    \A i \in DOMAIN cache :
        \/ cache[i][1] \in CacheKeys(cache')
        \/ i = 1 /\ Len(cache) = CacheSize

\* a call whose key is cached returns the stored result, and the cache keeps
\* its size and its keys
HitReturnsStored ==
    CallKey \in CacheKeys(cache)
    => /\ structure_info' = CacheValue(cache, CallKey)
       /\ Len(cache') = Len(cache)
       /\ CacheKeys(cache') = CacheKeys(cache)

\* a call whose key is new stores the fresh analysis of the file under it
MissStoresFresh ==
    CallKey \notin CacheKeys(cache)
    => /\ structure_info' = AnalyzeStructure(ws, FALSE)
       /\ CallKey \in CacheKeys(cache')
       /\ CacheValue(cache', CallKey) = structure_info'
       /\ OldEntriesStay

\* C18 as claimed: results are cached by (file path, sheet, modification
\* time); a repeated call with unchanged modification time returns the
\* stored result and leaves the cache size unchanged; after the modification
\* time changed the next call computes a fresh result stored under a new
\* key, the old entry staying until LRU capacity evicts it.
C18_CachedByKey == [][AnalysisStep => HitReturnsStored /\ MissStoresFresh]_vars

\* C18 amended: the above for calls that read the modification time, a new
\* key being stored only when the analysis succeeds; a failed analysis
\* returns the default and leaves the cache as it was.
C18_CachedByKeyOnSuccess ==
    [][(AnalysisStep /\ faults.analysis # "stat")
       => /\ HitReturnsStored
          /\ faults.analysis = "ok" => MissStoresFresh
          /\ (faults.analysis = "parse" /\ CallKey \notin CacheKeys(cache))
             => /\ structure_info' = CreateDefaultStructureInfo
                /\ cache' = cache]_vars

\* after a rewrite of the file both its old and its new entry are cached,
\* with different results, and the call returned the new one
C18_Witness ==
    /\ pc = "done" /\ ~returned.raised /\ faults.analysis = "ok"
    /\ mtime[call.file_path] = 2
    /\ \E i, j \in DOMAIN cache :
          /\ cache[i][1] = call.file_path \o ":Sheet:1.0"
          /\ cache[j] = <<CallKey, structure_info>>
          /\ cache[i][2] # cache[j][2]

----------------------------------------------------------------------------
(* The LRUCache on its own: any sequence of get, put and clear             *)

CacheKeyNames == {"k1", "k2", "k3", "k4"}
CacheValues == {"v1", "v2"}

\* the keys in the order of their last touch, the latest last
Touched(order, key) == SelectSeq(order, LAMBDA k : k # key) \o <<key>>

\* cache.get(key)
LRUGet(key) ==
    /\ call' = [op |-> "get", key |-> key]
    /\ \E out \in {CacheGet(cache, key)} :
          /\ returned' = [op |-> "get", value |-> out.value]
          /\ cache' = out.cache
    /\ history' = IF key \in CacheKeys(cache) THEN Touched(history, key) ELSE history

\* cache.put(key, value)
LRUPut(key, value) ==
    /\ call' = [op |-> "put", key |-> key, value |-> value]
    /\ cache' = CachePut(cache, key, value, CacheSize)
    /\ returned' = [op |-> "put"]
    /\ history' = Touched(history, key)

\* cache.clear()
LRUClear ==
    /\ call' = [op |-> "clear"]
    /\ cache' = <<>>
    /\ returned' = [op |-> "clear"]
    /\ history' = <<>>

LRUGetCall ==
    /\ \E key \in CacheKeyNames : LRUGet(key)
    /\ UNCHANGED <<ws, override, explicit, faults, names, collision_counts, views,
                   structure_info, frame, conditions, server_vars, pc, mtime, threads, lock>>

LRUPutCall ==
    /\ \E key \in CacheKeyNames, value \in CacheValues : LRUPut(key, value)
    /\ UNCHANGED <<ws, override, explicit, faults, names, collision_counts, views,
                   structure_info, frame, conditions, server_vars, pc, mtime, threads, lock>>

LRUClearCall ==
    /\ LRUClear
    /\ UNCHANGED <<ws, override, explicit, faults, names, collision_counts, views,
                   structure_info, frame, conditions, server_vars, pc, mtime, threads, lock>>

InitLRU ==
    /\ ws = Sheet(<<NumberRow>>, {})
    /\ override = NoOverride
    /\ explicit = {}
    /\ faults = NoFaults
    /\ names = {}
    /\ collision_counts = <<>>
    /\ views = <<>>
    /\ structure_info = CreateDefaultStructureInfo
    /\ returned = NothingReturned
    /\ frame = NoFrame
    /\ conditions = <<>>
    /\ pc = "idle"
    /\ cache = <<>>
    /\ call = [op |-> "none"]
    /\ mtime = [p \in Paths |-> 1]
    /\ history = <<>>
    /\ threads = <<>>
    /\ NoServer
    /\ lock = FreeLock

NextLRU == LRUGetCall \/ LRUPutCall \/ LRUClearCall

SpecLRU == InitLRU /\ [][NextLRU]_vars

\* the cached key touched longest ago
LeastRecentlyTouched ==
    history[SetMin({i \in DOMAIN history : history[i] \in CacheKeys(cache)})]

\* the cache maps the same keys to the same values, but for key k
SameButFor(k) ==
    \A i \in DOMAIN cache :
        cache[i][1] # k
        => cache[i][1] \in CacheKeys(cache') /\ CacheValue(cache', cache[i][1]) = cache[i][2]

\* C17: the analysis cache is a strict LRU cache: it never holds more than
\* maxsize entries; a put of a new key into a full cache evicts exactly the
\* key least recently touched by get or put; a put of an existing key
\* replaces its value without evicting anything or changing the size.
C17_StrictLRU ==
    [][/\ Len(cache') <= CacheSize
       /\ Cardinality(CacheKeys(cache')) = Len(cache')
       /\ (call'.op = "put" /\ call'.key \notin CacheKeys(cache))
          => /\ CacheValue(cache', call'.key) = call'.value
             /\ IF Len(cache) = CacheSize
                THEN /\ CacheKeys(cache') =
                            (CacheKeys(cache) \ {LeastRecentlyTouched}) \cup {call'.key}
                     /\ SameButFor(LeastRecentlyTouched)
                ELSE /\ CacheKeys(cache') = CacheKeys(cache) \cup {call'.key}
                     /\ SameButFor(call'.key)
       /\ (call'.op = "put" /\ call'.key \in CacheKeys(cache))
          => /\ CacheKeys(cache') = CacheKeys(cache)
             /\ Len(cache') = Len(cache)
             /\ CacheValue(cache', call'.key) = call'.value
             /\ SameButFor(call'.key)
       /\ call'.op = "get"
          => /\ CacheKeys(cache') = CacheKeys(cache)
             /\ SameButFor(call'.key)
             /\ returned'.value = IF call'.key \in CacheKeys(cache)
                                  THEN CacheValue(cache, call'.key) ELSE NoValue]_vars

\* a put into a full cache has just evicted the key touched longest ago,
\* and k1 is still cached
C17_Witness ==
    /\ call.op = "put"
    /\ Len(cache) = CacheSize
    /\ cache[Len(cache)][1] = call.key
    /\ cache[1][1] = "k1"
    /\ Len(history) > CacheSize
    /\ history[1] \notin CacheKeys(cache)
    /\ history[1] # "k1"

----------------------------------------------------------------------------
(* One TableRegistry used by one thread: any sequence of register and      *)
(* clear.  history lists the calls with their arguments and results.       *)

MaxCalls == 4
LongStemLength == 58

RECURSIVE RepeatStr(_, _)
RepeatStr(ch, n) == IF n <= 0 THEN "" ELSE ch \o RepeatStr(ch, n - 1)

RegisterArgs(alias, relpath, sheet, region_id) ==
    [alias |-> alias, relpath |-> relpath, sheet |-> sheet, region_id |-> region_id]

\* the registrations tried: a plain one, one whose name is the plain one's
\* first collision name, one that sanitizes to the plain one, two long paths
\* that truncate to the same name, and digits and punctuation
RegisterInputs ==
    {RegisterArgs("excel", "data.xlsx", "Sheet", 0),
     RegisterArgs("excel", "data.xlsx", "Sheet_2", 0),
     RegisterArgs("excel", "Data.xlsx", "(sheet)", 0),
     RegisterArgs("excel", RepeatStr("a", LongStemLength) \o ".xlsx", "Sheet", 0),
     RegisterArgs("excel", RepeatStr("a", LongStemLength) \o "b.xlsx", "Sheet", 0),
     RegisterArgs("excel", "2024/q1.xlsx", "P&L $", 0)}

\* TableRegistry.register(alias, relpath, sheet, region_id)
RegisterCall ==
    /\ Len(history) < MaxCalls
    /\ \E args \in RegisterInputs :
       \E out \in {Register(names, collision_counts, args.alias, args.relpath,
                            args.sheet, args.region_id)} :
          /\ call' = args
          /\ names' = out.names
          /\ collision_counts' = out.counts
          /\ returned' = [op |-> "register", name |-> out.name]
          /\ history' = Append(history, [op |-> "register", args |-> args,
                                         name |-> out.name])
    /\ UNCHANGED <<ws, override, explicit, faults, views, structure_info, frame,
                   conditions, server_vars, pc, cache, mtime, threads, lock>>

\* TableRegistry.clear()
ClearCall ==
    /\ Len(history) < MaxCalls
    /\ call' = [op |-> "clear"]
    /\ names' = {}
    /\ collision_counts' = <<>>
    /\ returned' = [op |-> "clear"]
    /\ history' = Append(history, [op |-> "clear"])
    /\ UNCHANGED <<ws, override, explicit, faults, views, structure_info, frame,
                   conditions, server_vars, pc, cache, mtime, threads, lock>>

InitRegistry ==
    /\ ws = Sheet(<<NumberRow>>, {})
    /\ override = NoOverride
    /\ explicit = {}
    /\ faults = NoFaults
    /\ names = {}
    /\ collision_counts = <<>>
    /\ views = <<>>
    /\ structure_info = CreateDefaultStructureInfo
    /\ returned = NothingReturned
    /\ frame = NoFrame
    /\ conditions = <<>>
    /\ pc = "idle"
    /\ cache = <<>>
    /\ call = [op |-> "none"]
    /\ mtime = [p \in Paths |-> 1]
    /\ history = <<>>
    /\ threads = <<>>
    /\ NoServer
    /\ lock = FreeLock

NextRegistry == RegisterCall \/ ClearCall

SpecRegistry == InitRegistry /\ [][NextRegistry]_vars

\* calls i..j of the history are registrations, with no clear among them
Registrations(i, j) == \A k \in i..j : history[k].op = "register"

\* C12: after any sequence of register calls with no clear in between, the
\* returned names are pairwise distinct, also when different inputs sanitize
\* or truncate to the same base name.
C12_NamesDistinct ==
    \A i, j \in DOMAIN history :
        (i < j /\ Registrations(i, j)) => history[i].name # history[j].name

\* three registrations in a row: the first and the third sanitize to the
\* same name, the second is the first's collision name
C12_Witness ==
    /\ Len(history) >= 3 /\ Registrations(1, 3)
    /\ history[1].args = RegisterArgs("excel", "data.xlsx", "Sheet", 0)
    /\ history[2].args = RegisterArgs("excel", "data.xlsx", "Sheet_2", 0)
    /\ history[3].args = RegisterArgs("excel", "Data.xlsx", "(sheet)", 0)
    /\ history[3].name = "excel.data.sheet_3"

\* call i is the first one on a new or cleared registry
OnFreshRegistry(i) == i = 1 \/ history[i - 1].op = "clear"

\* calls i..j register the same (namespace, relpath, sheet) triple
SameTriple(i, j) ==
    Registrations(i, j) /\ \A k \in i..j : history[k].args = history[i].args

\* C13: on a new or cleared registry, registering the same triple repeatedly
\* yields the base name first, the base name with suffix _2 second and with
\* suffix _3 third.
C13_SuffixesFromTwo ==
    \A i \in DOMAIN history :
        (OnFreshRegistry(i) /\ history[i].op = "register")
        => /\ history[i].name =
                  BuildAndSanitize(history[i].args.alias, history[i].args.relpath,
                                   history[i].args.sheet, history[i].args.region_id)
           /\ (i + 1 <= Len(history) /\ SameTriple(i, i + 1))
              => history[i + 1].name = history[i].name \o "_2"
           /\ (i + 2 <= Len(history) /\ SameTriple(i, i + 2))
              => history[i + 2].name = history[i].name \o "_3"

\* the triple of test_multiple_collisions registered three times on a
\* cleared registry
C13_Witness ==
    /\ Len(history) = 4
    /\ history[1].op = "clear"
    /\ SameTriple(2, 4)
    /\ history[2].name = "excel.data.sheet"
    /\ history[3].name = "excel.data.sheet_2"
    /\ history[4].name = "excel.data.sheet_3"

\* C14: every name returned by register, collisions with issued names
\* included, is at most 63 characters long.
C14_NameLengthBounded ==
    \A i \in DOMAIN history :
        history[i].op = "register" => Len(history[i].name) <= MaxNameLength

IdentifierChars == CharsOf(LowerChars) \cup CharsOf(DigitChars) \cup {"_", "."}

\* C15: every name returned by register consists of characters of [a-z0-9_]
\* and '.' separators only, and does not start with a digit.
C15_DottedIdentifier ==
    \A i \in DOMAIN history :
        history[i].op = "register"
        => /\ CharsOf(history[i].name) \subseteq IdentifierChars
           /\ ~IsDigit(CharAt(history[i].name, 1))

\* the names issued by the registrations before call i, back to the last clear
IssuedBefore(i) ==
    {history[k].name : k \in {k \in 1..(i - 1) : Registrations(k, i - 1)}}

\* the base name of registration i
BaseName(i) ==
    BuildAndSanitize(history[i].args.alias, history[i].args.relpath,
                     history[i].args.sheet, history[i].args.region_id)

\* C29 (stated of the call just completed, every call being the last one of
\* some state): register returns the sanitized base name if it has not been issued,
\* and otherwise the base name with suffix _n for the smallest n >= 2 such
\* that base_n has not been issued, also when other inputs sanitize directly
\* to a name of the form base_k.
C29_SmallestFreeSuffix ==
    \A i \in {Len(history)} \ {0} :
        history[i].op = "register"
        => \E base \in {BaseName(i)} :
              IF base \notin IssuedBefore(i) THEN history[i].name = base
              ELSE \E n \in 2..(MaxCalls + 2) :
                      /\ history[i].name = base \o "_" \o ToString(n)
                      /\ history[i].name \notin IssuedBefore(i)
                      /\ \A m \in 2..(n - 1) :
                             (base \o "_" \o ToString(m)) \in IssuedBefore(i)

\* another input took base_2 before the base name collided: the collision
\* gets base_3
C29_Witness ==
    /\ Len(history) >= 3 /\ Registrations(1, 3)
    /\ history[1].args = RegisterArgs("excel", "data.xlsx", "Sheet_2", 0)
    /\ history[2].args = RegisterArgs("excel", "data.xlsx", "Sheet", 0)
    /\ history[3].args = RegisterArgs("excel", "data.xlsx", "Sheet", 0)
    /\ history[3].name = "excel.data.sheet_3"

----------------------------------------------------------------------------
(* One TableRegistry shared by threads.  A call is a series of steps: the  *)
(* `with self._lock:` entry, the statements of the body one by one, and    *)
(* the exit that releases the lock and returns.                            *)

ThreadIds == {"t1", "t2"}
MaxThreadCalls == 2

SharedInputs ==
    {RegisterArgs("excel", "data.xlsx", "Sheet", 0),
     RegisterArgs("excel", "data.xlsx", "Sheet_2", 0)}

IdleThread == [pc |-> "idle", op |-> "none", calls |-> 0]

\* a lock that lets everybody in
AlwaysAcquire(l, t) == TRUE

\* threading.RLock: free, or held by the thread that asks again
CanAcquire(l, t) == l.owner \in {NoThread, t}
Acquired(l, t) == [owner |-> t, count |-> l.count + 1]
Released(l) == IF l.count = 1 THEN FreeLock ELSE [l EXCEPT !.count = @ - 1]

otherthan_registry == <<ws, override, explicit, faults, views, structure_info,
                        returned, frame, conditions, server_vars, pc, cache, call, mtime>>

\* a thread calls register(args) or clear()
StartRegister(t) ==
    /\ threads[t].pc = "idle" /\ threads[t].calls < MaxThreadCalls
    /\ \E args \in SharedInputs :
          threads' = [threads EXCEPT ![t] = [pc |-> "acquire", op |-> "register",
                                             args |-> args, calls |-> @.calls + 1]]
    /\ UNCHANGED <<names, collision_counts, history, lock, otherthan_registry>>

StartClear(t) ==
    /\ threads[t].pc = "idle" /\ threads[t].calls < MaxThreadCalls
    /\ threads' = [threads EXCEPT ![t] = [pc |-> "acquire", op |-> "clear",
                                          calls |-> @.calls + 1]]
    /\ UNCHANGED <<names, collision_counts, history, lock, otherthan_registry>>

\* with self._lock:
AcquireLock(t) ==
    /\ threads[t].pc = "acquire"
    /\ CanAcquire(lock, t)
    /\ lock' = Acquired(lock, t)
    /\ threads' = [threads EXCEPT ![t].pc =
                       IF threads[t].op = "register" THEN "build" ELSE "clear_names"]
    /\ UNCHANGED <<names, collision_counts, history, otherthan_registry>>

\* sanitized = self._build_and_sanitize(alias, relpath, sheet, region_id)
BuildStep(t) ==
    /\ threads[t].pc = "build"
    /\ \E sanitized \in {BuildAndSanitize(threads[t].args.alias, threads[t].args.relpath,
                                           threads[t].args.sheet,
                                           threads[t].args.region_id)} :
          threads' = [threads EXCEPT ![t] =
                         [pc |-> "collide", op |-> @.op, args |-> @.args,
                          calls |-> @.calls, sanitized |-> sanitized]]
    /\ UNCHANGED <<names, collision_counts, history, lock, otherthan_registry>>

\* final_name = self._handle_collision(sanitized)
CollideStep(t) ==
    /\ threads[t].pc = "collide"
    /\ \E out \in {RegisterSanitized(names, collision_counts, threads[t].sanitized)} :
          /\ collision_counts' = out.counts
          /\ threads' = [threads EXCEPT ![t] =
                             [pc |-> "insert", op |-> @.op, args |-> @.args,
                              calls |-> @.calls, final_name |-> out.name]]
    /\ UNCHANGED <<names, history, lock, otherthan_registry>>

\* self._names[final_name] = 1
InsertStep(t) ==
    /\ threads[t].pc = "insert"
    /\ names' = names \cup {threads[t].final_name}
    /\ threads' = [threads EXCEPT ![t].pc = "return"]
    /\ UNCHANGED <<collision_counts, history, lock, otherthan_registry>>

\* return final_name, leaving the with block
ReturnName(t) ==
    /\ threads[t].pc = "return"
    /\ lock' = Released(lock)
    /\ history' = Append(history, [op |-> "register", args |-> threads[t].args,
                                   name |-> threads[t].final_name, thread |-> t])
    /\ threads' = [threads EXCEPT ![t] = [pc |-> "idle", op |-> "none", calls |-> @.calls]]
    /\ UNCHANGED <<names, collision_counts, otherthan_registry>>

\* self._names.clear()
ClearNamesStep(t) ==
    /\ threads[t].pc = "clear_names"
    /\ names' = {}
    /\ threads' = [threads EXCEPT ![t].pc = "clear_counts"]
    /\ UNCHANGED <<collision_counts, history, lock, otherthan_registry>>

\* self._collision_counts.clear(), leaving the with block
ClearCountsStep(t) ==
    /\ threads[t].pc = "clear_counts"
    /\ collision_counts' = <<>>
    /\ lock' = Released(lock)
    /\ history' = Append(history, [op |-> "clear", thread |-> t])
    /\ threads' = [threads EXCEPT ![t] = [pc |-> "idle", op |-> "none", calls |-> @.calls]]
    /\ UNCHANGED <<names, otherthan_registry>>

InitThreads ==
    /\ ws = Sheet(<<NumberRow>>, {})
    /\ override = NoOverride
    /\ explicit = {}
    /\ faults = NoFaults
    /\ names = {}
    /\ collision_counts = <<>>
    /\ views = <<>>
    /\ structure_info = CreateDefaultStructureInfo
    /\ returned = NothingReturned
    /\ frame = NoFrame
    /\ conditions = <<>>
    /\ pc = "idle"
    /\ cache = <<>>
    /\ call = [op |-> "none"]
    /\ mtime = [p \in Paths |-> 1]
    /\ history = <<>>
    /\ threads = [t \in ThreadIds |-> IdleThread]
    /\ NoServer
    /\ lock = FreeLock

NextThreads ==
    \E t \in ThreadIds :
        \/ StartRegister(t)
        \/ StartClear(t)
        \/ AcquireLock(t)
        \/ BuildStep(t)
        \/ CollideStep(t)
        \/ InsertStep(t)
        \/ ReturnName(t)
        \/ ClearNamesStep(t)
        \/ ClearCountsStep(t)

SpecThreads == InitThreads /\ [][NextThreads]_vars

\* the thread is between the entry and the exit of a with block
InCall(t) == threads[t].pc \notin {"idle", "acquire"}

\* the calls returned since the last clear returned
SinceClear ==
    {i \in DOMAIN history : \A k \in i..Len(history) : history[k].op = "register"}

\* C16: under any interleaving of register and clear calls from several
\* threads each call runs alone under the registry's lock; no registration
\* is lost, and without a clear no two calls return the same name.
C16_CallsAtomic ==
    /\ \A t, u \in ThreadIds : (InCall(t) /\ InCall(u)) => t = u
    /\ \A i, j \in DOMAIN history :
          (i < j /\ Registrations(i, j)) => history[i].name # history[j].name
    /\ (\A t \in ThreadIds : threads[t].pc \notin {"clear_names", "clear_counts"})
       => \A i \in SinceClear : history[i].name \in names

\* both threads registered the same triple twice, one waiting for the lock
\* while the other held it
C16_Witness ==
    /\ Len(history) = 4
    /\ Registrations(1, 4)
    /\ \A i \in 1..4 : history[i].args = RegisterArgs("excel", "data.xlsx", "Sheet", 0)
    /\ history[1].thread # history[2].thread
    /\ history[2].thread # history[3].thread

----------------------------------------------------------------------------
(* One ExcelAnalyzer shared by threads.  analyzer.py takes no lock, so the *)
(* statements of analyze_structure, of LRUCache.get and of LRUCache.put    *)
(* are steps that the threads interleave freely.                           *)

MaxAnalyses == 3

AnalysisArgs ==
    {[file_path |-> "book.xlsx", sheet |-> "Sheet"],
     [file_path |-> "book.xlsx", sheet |-> "Data"],
     [file_path |-> "data.xlsx", sheet |-> "Sheet"]}

otherthan_analyzer == <<ws, override, explicit, faults, names, collision_counts, views,
                        structure_info, returned, frame, conditions, server_vars, pc, call, mtime,
                        history, lock>>

\* the thread goes to position p
GoTo(t, p) == [threads EXCEPT ![t].pc = p]

\* the call of thread t ends: "returned" with a value, or "raised"
Finish(t, outcome, value) ==
    [threads EXCEPT ![t] = [pc |-> "idle", calls |-> @.calls, outcome |-> outcome,
                            value |-> value]]

\* a thread calls analyze_structure(file_path, sheet): lines 44-45 build the key
StartAnalysis(t) ==
    /\ threads[t].pc = "idle" /\ threads[t].calls < MaxAnalyses
    /\ \E args \in AnalysisArgs :
          threads' = [threads EXCEPT ![t] =
                         [pc |-> "get_check", calls |-> @.calls + 1,
                          key |-> CacheKey(args.file_path, args.sheet, mtime[args.file_path])]]
    /\ UNCHANGED <<cache, otherthan_analyzer>>

\* get: if key not in self.cache: return None
GetCheck(t) ==
    /\ threads[t].pc = "get_check"
    /\ threads' = GoTo(t, IF threads[t].key \in CacheKeys(cache) THEN "get_move"
                          ELSE "analyse")
    /\ UNCHANGED <<cache, otherthan_analyzer>>

\* get: self.cache.move_to_end(key); a KeyError leaves analyze_structure
GetMove(t) ==
    /\ threads[t].pc = "get_move"
    /\ IF threads[t].key \in CacheKeys(cache)
       THEN /\ cache' = MoveToEnd(cache, threads[t].key)
            /\ threads' = GoTo(t, "get_read")
       ELSE /\ threads' = Finish(t, "raised", NoValue)
            /\ UNCHANGED cache
    /\ UNCHANGED otherthan_analyzer

\* get: return self.cache[key], and `if cached_result: return cached_result`
GetRead(t) ==
    /\ threads[t].pc = "get_read"
    /\ threads' = IF threads[t].key \in CacheKeys(cache)
                  THEN Finish(t, "returned", CacheValue(cache, threads[t].key))
                  ELSE Finish(t, "raised", NoValue)
    /\ UNCHANGED <<cache, otherthan_analyzer>>

\* lines 54-96: the workbook is read and analysed
Analyse(t) ==
    /\ threads[t].pc = "analyse"
    /\ \E info \in {AnalyzeStructure(ws, FALSE)} :
          threads' = [threads EXCEPT ![t] = [pc |-> "put_check", calls |-> @.calls,
                                             key |-> @.key, value |-> info]]
    /\ UNCHANGED <<cache, otherthan_analyzer>>

\* put: if key in self.cache
PutCheck(t) ==
    /\ threads[t].pc = "put_check"
    /\ threads' = GoTo(t, IF threads[t].key \in CacheKeys(cache) THEN "put_move"
                          ELSE "put_set")
    /\ UNCHANGED <<cache, otherthan_analyzer>>

\* put: self.cache.move_to_end(key); a KeyError is caught at line 112
PutMove(t) ==
    /\ threads[t].pc = "put_move"
    /\ IF threads[t].key \in CacheKeys(cache)
       THEN /\ cache' = MoveToEnd(cache, threads[t].key)
            /\ threads' = GoTo(t, "put_set")
       ELSE /\ threads' = Finish(t, "returned", CreateDefaultStructureInfo)
            /\ UNCHANGED cache
    /\ UNCHANGED otherthan_analyzer

\* put: self.cache[key] = value
PutSet(t) ==
    /\ threads[t].pc = "put_set"
    /\ cache' = SetItem(cache, threads[t].key, threads[t].value)
    /\ threads' = GoTo(t, "put_len")
    /\ UNCHANGED otherthan_analyzer

\* put: if len(self.cache) > self.maxsize
PutLen(t) ==
    /\ threads[t].pc = "put_len"
    /\ threads' = IF Len(cache) > CacheSize THEN GoTo(t, "put_pop")
                  ELSE Finish(t, "returned", threads[t].value)
    /\ UNCHANGED <<cache, otherthan_analyzer>>

\* put: self.cache.popitem(last=False), then return structure_info
PutPop(t) ==
    /\ threads[t].pc = "put_pop"
    /\ IF cache = <<>>
       THEN /\ threads' = Finish(t, "returned", CreateDefaultStructureInfo)
            /\ UNCHANGED cache
       ELSE /\ cache' = PopOldest(cache)
            /\ threads' = Finish(t, "returned", threads[t].value)
    /\ UNCHANGED otherthan_analyzer

InitShared ==
    /\ ws = Sheet(<<TextRow, NumberRow>>, {})
    /\ override = NoOverride
    /\ explicit = {}
    /\ faults = NoFaults
    /\ names = {}
    /\ collision_counts = <<>>
    /\ views = <<>>
    /\ structure_info = CreateDefaultStructureInfo
    /\ returned = NothingReturned
    /\ frame = NoFrame
    /\ conditions = <<>>
    /\ pc = "idle"
    /\ cache = <<>>
    /\ call = [op |-> "none"]
    /\ mtime = [p \in Paths |-> 1]
    /\ history = <<>>
    /\ threads = [t \in ThreadIds |-> [pc |-> "idle", calls |-> 0]]
    /\ NoServer
    /\ lock = FreeLock

NextShared ==
    \E t \in ThreadIds :
        \/ StartAnalysis(t)
        \/ GetCheck(t)
        \/ GetMove(t)
        \/ GetRead(t)
        \/ Analyse(t)
        \/ PutCheck(t)
        \/ PutMove(t)
        \/ PutSet(t)
        \/ PutLen(t)
        \/ PutPop(t)

SpecShared == InitShared /\ [][NextShared]_vars

\* the thread is inside LRUCache.get or LRUCache.put
InCacheStep(t) ==
    threads[t].pc \in {"get_move", "get_read", "put_move", "put_set", "put_len", "put_pop"}

\* C19: the analyzer's cache is guarded by one re-entrant lock: under any
\* interleaving of analyze_structure calls that share an analyzer the get and
\* put steps exclude each other, the cache never exceeds its capacity when
\* no put is under way, and no call fails on the cache.
C19_CacheGuarded ==
    /\ \A t, u \in ThreadIds : (InCacheStep(t) /\ InCacheStep(u)) => t = u
    /\ (\A t \in ThreadIds : ~InCacheStep(t)) => Len(cache) <= CacheSize
    /\ \A t \in ThreadIds :
          (threads[t].pc = "idle" /\ threads[t].calls > 0)
          => /\ threads[t].outcome = "returned"
             /\ threads[t].value = AnalyzeStructure(ws, FALSE)

----------------------------------------------------------------------------
(* DataNormalizer.normalize applied to a table and then to its own output  *)

MaxPasses == 2
MaxNormalizeRows == 3

\* text, a number written as text, a number, a boolean word, an empty cell
NormalizeCells == {"a", "'2", "2", "yes", NONE}

NormalizeFrames ==
    {[columns |-> <<"Item", "Qty">>, rows |-> rows,
      src |-> [i \in 1..Len(rows) |-> i], col_src |-> <<1, 2>>, header_src |-> <<>>] :
        rows \in SeqsUpTo(NormalizeCells \X NormalizeCells, MaxNormalizeRows)}

\* normalizer.normalize(df) on the table at hand, which the caller then
\* holds in place of the table it passed
NormalizeCall ==
    /\ Len(history) < MaxPasses
    /\ \E out \in {Normalize(frame)} :
          /\ returned' = [op |-> "normalize", df |-> out]
          /\ history' = Append(history, out)
          /\ frame' = out
    /\ UNCHANGED <<ws, override, explicit, faults, names, collision_counts, views,
                   structure_info, conditions, server_vars, pc, cache, call, mtime, threads, lock>>

InitNormalize ==
    /\ frame \in NormalizeFrames
    /\ conditions = <<>>
    /\ ws = Sheet(<<Blank>>, {})
    /\ override = NoOverride
    /\ explicit = {}
    /\ faults = NoFaults
    /\ names = {}
    /\ collision_counts = <<>>
    /\ views = <<>>
    /\ structure_info = CreateDefaultStructureInfo
    /\ returned = NothingReturned
    /\ pc = "idle"
    /\ cache = <<>>
    /\ SingleCaller

NextNormalize == NormalizeCall

SpecNormalize == InitNormalize /\ [][NextNormalize]_vars

\* C20: the Normalizer is idempotent: normalize(normalize(t)) has the same
\* column types and values as normalize(t); no stage of the second pass
\* changes a column the first pass produced.
C20_NormalizeIdempotent ==
    \A i \in DOMAIN history : i > 1 => history[i] = history[i - 1]

----------------------------------------------------------------------------
(* analyze_structure on sheets of several blocks, narrow rows and a hidden *)
(* first row                                                               *)

MaxRegionRows == 5

RegionRowKinds == {TextRow, NumberRow, Blank, <<"a", NONE>>, <<NONE, "1">>}

RegionSheets ==
    {Sheet(rows, hidden) :
        rows \in SeqsUpTo(RegionRowKinds, MaxRegionRows) \ {<<>>},
        hidden \in {{}, {1}}}

InitRegions ==
    /\ ws \in RegionSheets
    /\ override = NoOverride
    /\ explicit = {}
    /\ faults \in {NoFaults, AnalysisFails}
    /\ names = {}
    /\ collision_counts = <<>>
    /\ views = <<>>
    /\ structure_info = CreateDefaultStructureInfo
    /\ returned = NothingReturned
    /\ frame = NoFrame
    /\ conditions = <<>>
    /\ pc = "idle"
    /\ cache = <<>>
    /\ SingleCaller

NextRegions == AnalyzeStructureCall

SpecRegions == InitRegions /\ [][NextRegions]_vars

\* the rows of the blank-row runs of length >= 2 inside the bounding box
SeparatorRows ==
    {r \in structure_info.data_start_row..structure_info.data_end_row :
        /\ r \in structure_info.blank_rows
        /\ (r - 1) \in structure_info.blank_rows \/ (r + 1) \in structure_info.blank_rows}

\* C30: in every StructureInfo produced by analyze_structure num_tables is
\* the number of listed regions; the regions are listed in increasing row
\* order with pairwise disjoint row ranges, lie inside the bounding box with
\* start <= end for rows and columns, start at their own header row, and
\* contain no row of a blank-row separator run of length >= 2.
C30_RegionsWellFormed ==
    (pc = "done" /\ returned.op = "analyze_structure")
    => \E t \in {structure_info.table_ranges} :
          /\ structure_info.num_tables = Len(t)
          /\ \A i \in 1..(Len(t) - 1) : t[i].end_row < t[i + 1].start_row
          /\ \A i \in DOMAIN t :
                /\ structure_info.data_start_row <= t[i].start_row
                /\ t[i].start_row <= t[i].end_row
                /\ t[i].end_row <= structure_info.data_end_row
                /\ structure_info.data_start_col <= t[i].start_col
                /\ t[i].start_col <= t[i].end_col
                /\ t[i].end_col <= structure_info.data_end_col
                /\ t[i].has_header /\ t[i].header_row = t[i].start_row
                /\ \A r \in t[i].start_row..t[i].end_row : r \notin SeparatorRows

\* two regions were found, the second narrower than the bounding box
C30_Witness ==
    /\ pc = "done" /\ returned.op = "analyze_structure"
    /\ structure_info.num_tables = 2
    /\ SeparatorRows # {}
    /\ structure_info.table_ranges[2].end_col < structure_info.data_end_col

----------------------------------------------------------------------------
(* SemanticTypeInference (loading/type_inference.py).  A pattern is kept   *)
(* as what re.match makes of it: r'.*w.*' finds w anywhere, r'.*w$' at the *)
(* end, r'^w$' is the whole name, r'w.*' the start, and r'w.*v.*' is w at  *)
(* the start with v somewhere after it.                                    *)

Anywhere(word) == [kind |-> "anywhere", word |-> word]
AtEnd(word) == [kind |-> "end", word |-> word]
Whole(word) == [kind |-> "whole", word |-> word]
AtStart(word) == [kind |-> "start", word |-> word]
StartThen(word, then) == [kind |-> "start_then", word |-> word, then |-> then]

NUMERIC_PATTERNS ==
    {Anywhere(w) : w \in {"amount", "price", "cost", "revenue", "total", "sum", "value",
                          "balance", "qty", "quantity", "count", "sales", "profit",
                          "expense", "fee", "charge", "rate", "percent", "margin"}}

TEXT_ID_PATTERNS ==
    {Whole("id"), AtEnd("_id"), AtEnd("id"), AtEnd("number"), AtEnd("code"), AtEnd("ref"),
     AtEnd("key"), Whole("sku"), AtEnd("sku"), Anywhere("zip"), Anywhere("postal"),
     StartThen("account", "code"), Anywhere("batch"), AtStart("tracking"),
     StartThen("invoice", "number"), StartThen("order", "number"),
     StartThen("customer", "id"), StartThen("employee", "id")}

DATE_PATTERNS ==
    {Anywhere(w) : w \in {"date", "time", "timestamp", "when", "created", "modified",
                          "due", "start", "end", "period", "year", "month"}}

Contains(s, word) ==
    \E i \in 1..(Len(s) - Len(word) + 1) : SubSeq(s, i, i + Len(word) - 1) = word
StartsWith(s, word) == Len(s) >= Len(word) /\ SubSeq(s, 1, Len(word)) = word
EndsWith(s, word) ==
    Len(s) >= Len(word) /\ SubSeq(s, Len(s) - Len(word) + 1, Len(s)) = word

\* re.match(pattern, s)
ReMatch(pattern, s) ==
    CASE pattern.kind = "anywhere" -> Contains(s, pattern.word)
      [] pattern.kind = "end" -> EndsWith(s, pattern.word)
      [] pattern.kind = "whole" -> s = pattern.word
      [] pattern.kind = "start" -> StartsWith(s, pattern.word)
      [] pattern.kind = "start_then" ->
            /\ StartsWith(s, pattern.word)
            /\ Contains(SubSeq(s, Len(pattern.word) + 1, Len(s)), pattern.then)

RECURSIVE LowerStr(_)
\* str.lower()
LowerStr(s) ==
    IF s = "" THEN "" ELSE LowerChar(CharAt(s, 1)) \o LowerStr(SubSeq(s, 2, Len(s)))

RECURSIVE StripSpaces(_)
\* str.strip()
StripSpaces(s) ==
    IF s = "" THEN ""
    ELSE IF CharAt(s, 1) = " " THEN StripSpaces(SubSeq(s, 2, Len(s)))
    ELSE IF CharAt(s, Len(s)) = " " THEN StripSpaces(SubSeq(s, 1, Len(s) - 1))
    ELSE s

\* a variant that looks for amounts first
TypeOfLoweredAmountFirst(col_lower) ==
    IF \E pattern \in NUMERIC_PATTERNS : ReMatch(pattern, col_lower) THEN "DECIMAL"
    ELSE IF \E pattern \in DATE_PATTERNS : ReMatch(pattern, col_lower) THEN "TIMESTAMP"
    ELSE IF \E pattern \in TEXT_ID_PATTERNS : ReMatch(pattern, col_lower) THEN "VARCHAR"
    ELSE NONE

\* the three tests of infer_type_from_name on the lowered, stripped name
TypeOfLowered(col_lower) ==
    IF \E pattern \in DATE_PATTERNS : ReMatch(pattern, col_lower) THEN "TIMESTAMP"
    ELSE IF \E pattern \in TEXT_ID_PATTERNS : ReMatch(pattern, col_lower) THEN "VARCHAR"
    ELSE IF \E pattern \in NUMERIC_PATTERNS : ReMatch(pattern, col_lower) THEN "DECIMAL"
    ELSE NONE

InferTypeFromName(col_name) == TypeOfLowered(StripSpaces(LowerStr(col_name)))

\* generate_type_hints(df): the dict of the columns that got a type
GenerateTypeHints(f) ==
    [col \in {c \in Range(f.columns) : InferTypeFromName(c) # NONE} |->
        InferTypeFromName(col)]

MaxHintColumns == 2

\* column names that match one class, several classes or none
HintNames ==
    {"InvoiceAmount", "OrderDate", "CustomerID", "Notes", "UpdateAmount", "TotalCode",
     "Due Date Ref", " Price ", "Order Number", "tracking fee", "YearEndBalance"}

\* the frames handed to generate_type_hints: the same names over text and over numbers
HintFrames ==
    {[EmptyFrame EXCEPT !.columns = columns,
                        !.rows = <<[j \in 1..Len(columns) |-> cell]>>] :
        columns \in SeqsUpTo(HintNames, MaxHintColumns) \ {<<>>}, cell \in {"a", "1"}}

GenerateTypeHintsCall ==
    /\ pc = "idle"
    /\ returned' = [op |-> "generate_type_hints", type_hints |-> GenerateTypeHints(frame)]
    /\ pc' = "done"
    /\ UNCHANGED <<ws, override, explicit, faults, names, collision_counts, views,
                   structure_info, frame, conditions, server_vars, cache, shared_vars>>

InitHints ==
    /\ frame \in HintFrames
    /\ conditions = <<>>
    /\ ws = Sheet(<<Blank>>, {})
    /\ override = NoOverride
    /\ explicit = {}
    /\ faults = NoFaults
    /\ names = {}
    /\ collision_counts = <<>>
    /\ views = <<>>
    /\ structure_info = CreateDefaultStructureInfo
    /\ returned = NothingReturned
    /\ pc = "idle"
    /\ cache = <<>>
    /\ SingleCaller

NextHints == GenerateTypeHintsCall

SpecHints == InitHints /\ [][NextHints]_vars

LooksLikeDate(col) == \E pattern \in DATE_PATTERNS : ReMatch(pattern, StripSpaces(LowerStr(col)))
LooksLikeId(col) == \E pattern \in TEXT_ID_PATTERNS : ReMatch(pattern, StripSpaces(LowerStr(col)))
LooksLikeAmount(col) ==
    \E pattern \in NUMERIC_PATTERNS : ReMatch(pattern, StripSpaces(LowerStr(col)))

HintOf(col) ==
    IF col \in DOMAIN returned.type_hints THEN returned.type_hints[col] ELSE NONE

\* C21: generate_type_hints classifies each column by its name alone, with
\* priority date over identifier over amount: the first class whose pattern
\* matches the lower-cased name decides, a name matching several classes takes
\* the highest one, a name matching none gets no hint; InvoiceAmount, OrderDate
\* and CustomerID get DECIMAL, TIMESTAMP and VARCHAR.
C21_HintsByNamePriority ==
    returned.op = "generate_type_hints"
    => /\ DOMAIN returned.type_hints \subseteq Range(frame.columns)
       /\ \A col \in Range(frame.columns) :
             /\ LooksLikeDate(col) => HintOf(col) = "TIMESTAMP"
             /\ ~LooksLikeDate(col) /\ LooksLikeId(col) => HintOf(col) = "VARCHAR"
             /\ ~LooksLikeDate(col) /\ ~LooksLikeId(col) /\ LooksLikeAmount(col)
                   => HintOf(col) = "DECIMAL"
             /\ ~LooksLikeDate(col) /\ ~LooksLikeId(col) /\ ~LooksLikeAmount(col)
                   => col \notin DOMAIN returned.type_hints
             /\ col = "InvoiceAmount" => HintOf(col) = "DECIMAL"
             /\ col = "OrderDate" => HintOf(col) = "TIMESTAMP"
             /\ col = "CustomerID" => HintOf(col) = "VARCHAR"

C21_Witness ==
    /\ returned.op = "generate_type_hints"
    /\ frame.columns = <<"UpdateAmount", "TotalCode">>
    /\ LooksLikeDate("UpdateAmount") /\ LooksLikeAmount("UpdateAmount")
    /\ LooksLikeId("TotalCode") /\ LooksLikeAmount("TotalCode")
    /\ returned.type_hints = [col \in {"UpdateAmount", "TotalCode"} |->
                                 IF col = "TotalCode" THEN "VARCHAR" ELSE "TIMESTAMP"]

----------------------------------------------------------------------------
(* One ExcelLoader used for a series of load_sheet calls on the same file  *)

MaxLoads == 3

DefaultCacheSize == 128

\* ExcelAnalyzer(): the cache of an analyzer just constructed
NewAnalyzerCache == <<>>

\* load_sheet, lines 39-55: the analysis of the analyzer made for this call
LoaderAnalysis(w, flt, key) ==
    AnalyzeWithCache(w, flt.analysis = "parse", NewAnalyzerCache, key,
                     CacheGet(NewAnalyzerCache, key), DefaultCacheSize)

LoadOverrides == {AutoDetect, NoOverride}

\* load_sheet, keeping a log of what its analyzer did: the key it looked up
\* and whether the lookup was a hit
LoggedLoadSheetCall ==
    /\ pc = "idle"
    /\ Len(history) < MaxLoads
    /\ \E key \in {CacheKey(call.file_path, call.sheet, mtime[call.file_path])} :
       \E analysed \in {override.present /\ override.auto_detect
                            /\ faults.analysis # "stat"} :
       \E out \in {LoadAnalysed(ws, override, LoaderAnalysis(ws, faults, key).info,
                                 analysed, faults,
                                 [names |-> names, counts |-> collision_counts,
                                  views |-> views])} :
          /\ names' = out.names
          /\ collision_counts' = out.counts
          /\ views' = out.views
          /\ returned' = [op |-> "load_sheet", raised |-> out.raised,
                          metas |-> out.metas]
          /\ history' = Append(history,
                 [key |-> key, analysed |-> analysed,
                  cache_hit |-> analysed /\ CacheGet(NewAnalyzerCache, key).found])
    /\ pc' = "done"
    /\ UNCHANGED <<ws, override, explicit, faults, structure_info, frame, conditions, server_vars,
                   cache, call, mtime, threads, lock>>

\* the caller comes back for another load of the same sheet: the file may
\* have been rewritten, the override and the environment may differ
NextLoad ==
    /\ pc = "done"
    /\ \/ \E w \in CachedSheets : TouchFile(call.file_path, w)
       \/ UNCHANGED <<mtime, ws>>
    /\ override' \in LoadOverrides
    /\ explicit' = {f \in DOMAIN override' : override'[f] # DefaultOverride[f]}
    /\ faults' \in AnalysisFaults
    /\ pc' = "idle"
    /\ UNCHANGED <<names, collision_counts, views, structure_info, returned, frame,
                   conditions, server_vars, cache, call, history, threads, lock>>

InitLoads ==
    /\ ws \in CachedSheets
    /\ override \in LoadOverrides
    /\ explicit = {f \in DOMAIN override : override[f] # DefaultOverride[f]}
    /\ faults \in AnalysisFaults
    /\ names = {}
    /\ collision_counts = <<>>
    /\ views = <<>>
    /\ structure_info = CreateDefaultStructureInfo
    /\ returned = NothingReturned
    /\ frame = NoFrame
    /\ conditions = <<>>
    /\ pc = "idle"
    /\ cache = <<>>
    /\ SingleCaller

NextLoads == LoggedLoadSheetCall \/ NextLoad

SpecLoads == InitLoads /\ [][NextLoads]_vars

\* C25: the Loader's auto-detect step uses the Analyzer's cache: of two
\* successive load_sheet calls with auto_detect on the same file and sheet
\* with unchanged modification time, the second gets the StructureInfo from
\* the cache (a hit) instead of analysing the workbook again.
C25_SecondLoadHitsCache ==
    \A i \in {Len(history)} \ {0, 1} :
        (/\ history[i - 1].analysed /\ history[i].analysed
         /\ history[i - 1].key = history[i].key
         /\ faults = NoFaults)
        => history[i].cache_hit

----------------------------------------------------------------------------
(* The server: load_dir and refresh over the files of one root directory.  *)
(* A file is [sheets, unreadable, failing]: the number of its sheets,      *)
(* whether reading its sheet names fails, and the sheets whose load fails. *)
(* A server state sv is [names, counts, views, catalog].                   *)

SheetNames == <<"Sheet", "Data">>
MaxSheets == Len(SheetNames)

\* sheet k of the file at relpath p: a header row and one number row for
\* every time the file was written
WorksheetOf(p, k, m) ==
    [Sheet(<<TextRow>> \o Repeat(NumberRow, m), {}) EXCEPT !.relpath = p,
                                                          !.sheet = SheetNames[k]]

\* every order in which a loop may meet the elements of S
Orders(S) == {order \in [1..Cardinality(S) -> S] : Range(order) = S}

RECURSIVE InSomeOrder(_)
\* the elements of S one after the other
InSomeOrder(S) ==
    IF S = {} THEN <<>>
    ELSE <<CHOOSE x \in S : TRUE>> \o InSomeOrder(S \ {CHOOSE x \in S : TRUE})

\* the TableMeta the catalog keeps, with the st_mtime read at load time
CatalogEntry(meta, m) ==
    [table_name |-> meta.table_name, relpath |-> meta.relpath, sheet |-> meta.sheet,
     mode |-> meta.mode, alias |-> meta.alias, mtime |-> m]

\* catalog[table_meta.table_name] = table_meta for the metas of one load_sheet
WithMetas(cat, metas, m) ==
    [n \in DOMAIN cat \cup {metas[k].table_name : k \in DOMAIN metas} |->
        IF \E k \in DOMAIN metas : metas[k].table_name = n
        THEN CatalogEntry(metas[CHOOSE k \in DOMAIN metas : metas[k].table_name = n], m)
        ELSE cat[n]]

\* the tables of a namespace: table_name.startswith(f"{alias}.")
TablesOf(cat, alias) == {n \in DOMAIN cat : StartsWith(n, alias \o ".")}

\* the server state after the load_sheet that gave out
AfterLoadSheet(sv, out, m) ==
    [names |-> out.names, counts |-> out.counts, views |-> out.views,
     catalog |-> IF out.raised THEN sv.catalog ELSE WithMetas(sv.catalog, out.metas, m)]

\* load_sheet without an override: register the name, load RAW under it
LoadSheetPlain(w, flt, st) ==
    RawOutcome(w, flt, st.views,
               Register(st.names, st.counts, Alias, w.relpath, w.sheet, 0))

\* loader.load_sheet(file_path, relative_path, sheet_name, alias, None)
ServerLoadSheet(p, file, k, m, sv) ==
    LoadSheetPlain(WorksheetOf(p, k, m), [NoFaults EXCEPT !.raw = k \in file.failing],
                   [names |-> sv.names, counts |-> sv.counts, views |-> sv.views])

RECURSIVE LoadSheetsFrom(_, _, _, _, _)
\* one pass of the loop over sheet_names: out is what load_sheet gave for
\* sheet k; an exception leaves the loop
LoadNextSheet(p, file, k, m, acc, out) ==
    IF out.raised
    THEN [ok |-> FALSE, sheets |-> acc.sheets, sv |-> AfterLoadSheet(acc.sv, out, m)]
    ELSE LoadSheetsFrom(p, file, k + 1, m,
             [ok |-> TRUE, sheets |-> acc.sheets + Len(out.metas),
              sv |-> AfterLoadSheet(acc.sv, out, m)])

\* the for loop over sheet_names inside the try of load_dir, from sheet k on:
\* [ok, sheets, sv], ok FALSE when a load_sheet raised
LoadSheetsFrom(p, file, k, m, acc) ==
    IF k > file.sheets THEN acc
    ELSE LoadNextSheet(p, file, k, m, acc, ServerLoadSheet(p, file, k, m, acc.sv))

\* the try block of load_dir for one file: get_sheet_names, then the sheets
LoadFile(p, file, m, acc) ==
    IF file.unreadable THEN [ok |-> FALSE, sheets |-> acc.sheets, sv |-> acc.sv]
    ELSE LoadSheetsFrom(p, file, 1, m, [ok |-> TRUE, sheets |-> acc.sheets, sv |-> acc.sv])

\* a variant in which the failure of a file ends the loop over the files
StopAtFailedFile(acc, p, loaded) ==
    [sv |-> loaded.sv, sheets |-> loaded.sheets, stopped |-> ~loaded.ok,
     files |-> IF loaded.ok THEN acc.files + 1 ELSE acc.files,
     failed |-> IF loaded.ok THEN acc.failed ELSE Append(acc.failed, p)]

\* the end of one pass of the loop over the files: files_loaded += 1, or
\* the except clause's failed_files.append
CountOrRecordFailure(acc, p, loaded) ==
    [sv |-> loaded.sv, sheets |-> loaded.sheets, stopped |-> FALSE,
     files |-> IF loaded.ok THEN acc.files + 1 ELSE acc.files,
     failed |-> IF loaded.ok THEN acc.failed ELSE Append(acc.failed, p)]

RECURSIVE LoadFilesFrom(_, _, _, _, _)
\* the loop of load_dir over the matched files, in the order glob gives them
LoadFilesFrom(fs, mt, order, i, acc) ==
    IF i > Len(order) \/ acc.stopped THEN acc
    ELSE LoadFilesFrom(fs, mt, order, i + 1,
             CountOrRecordFailure(acc, order[i],
                 LoadFile(order[i], fs[order[i]], mt[order[i]], acc)))

\* _create_system_views(alias): the views {alias}.__files and {alias}.__tables
\* list the namespace when it has tables
WithSystemViews(sv, alias) ==
    IF TablesOf(sv.catalog, alias) = {} THEN sv
    ELSE [sv EXCEPT !.views =
             WithView(WithView(@, alias \o ".__files", NoFrame),
                      alias \o ".__tables", NoFrame)]

\* what load_dir makes of its loop: the server state and the result
LoadDirResult(looped, alias) ==
    [sv |-> WithSystemViews(looped.sv, alias),
     result |-> [alias |-> alias, files_count |-> looped.files,
                 sheets_count |-> looped.sheets,
                 tables_count |-> Cardinality(TablesOf(looped.sv.catalog, alias)),
                 failed |-> looped.failed]]

\* load_dir(path, alias) with the default patterns and no overrides
LoadDir(fs, mt, order, alias, sv) ==
    LoadDirResult(LoadFilesFrom(fs, mt, order, 1,
                      [sv |-> sv, sheets |-> 0, stopped |-> FALSE, files |-> 0,
                       failed |-> <<>>]),
                  alias)

\* f without the keys in S
Without(f, S) == [n \in DOMAIN f \ S |-> f[n]]

\* the first loop of _refresh_full: DROP VIEW IF EXISTS and del catalog[...]
\* for every table of the namespace (every table when alias is None)
DropTables(sv, alias) ==
    [sv EXCEPT !.views = Without(@, IF alias = NONE THEN DOMAIN sv.catalog
                                    ELSE TablesOf(sv.catalog, alias)),
               !.catalog = Without(@, IF alias = NONE THEN DOMAIN sv.catalog
                                      ELSE TablesOf(sv.catalog, alias))]

\* what _refresh_full returns when it loaded the directory again
FullResult(loaded, alias, dropped) ==
    [sv |-> WithSystemViews(loaded.sv, alias),
     result |-> [files_count |-> loaded.result.files_count,
                 sheets_count |-> loaded.result.sheets_count,
                 changed |-> 0, dropped |-> dropped,
                 added |-> loaded.result.tables_count]]

\* the rest of _refresh_full on the state the drops left: load_dir again
\* when the alias has a load config, then the system views
ReloadDropped(fs, mt, order, alias, configs, dropped, sv) ==
    IF alias # NONE /\ alias \in DOMAIN configs
    THEN FullResult(LoadDir(fs, mt, order, alias, sv), alias, dropped)
    ELSE [sv |-> WithSystemViews(sv, alias),
          result |-> [files_count |-> 0, sheets_count |-> 0, changed |-> 0,
                      dropped |-> dropped, added |-> 0]]

RefreshFull(fs, mt, order, alias, configs, sv) ==
    ReloadDropped(fs, mt, order, alias, configs,
                  Cardinality(IF alias = NONE THEN DOMAIN sv.catalog
                              ELSE TablesOf(sv.catalog, alias)),
                  DropTables(sv, alias))

SheetIndex(sheet) == CHOOSE k \in DOMAIN SheetNames : SheetNames[k] = sheet

\* the end of one pass of _refresh_incremental: the view was dropped and out
\* is what load_sheet gave; an exception is logged and the loop goes on
Reloaded(acc, out, m) ==
    [changed |-> IF out.raised THEN acc.changed ELSE acc.changed + 1,
     sv |-> AfterLoadSheet(acc.sv, out, m)]

\* one pass of the loop of _refresh_incremental, for the table and the
\* TableMeta of the snapshot
RefreshTable(fs, mt, alias, configs, acc, table_name, table_meta) ==
    IF \/ alias # NONE /\ ~StartsWith(table_name, alias \o ".")
       \/ table_meta.relpath \notin DOMAIN fs
       \/ mt[table_meta.relpath] <= table_meta.mtime
       \/ table_meta.alias \notin DOMAIN configs
    THEN acc
    ELSE Reloaded(acc,
             ServerLoadSheet(table_meta.relpath,
                 [fs[table_meta.relpath] EXCEPT
                     !.failing = IF fs[table_meta.relpath].unreadable
                                 THEN 1..MaxSheets ELSE @],
                 SheetIndex(table_meta.sheet), mt[table_meta.relpath],
                 [acc.sv EXCEPT !.views = Without(@, {table_name})]),
             mt[table_meta.relpath])

RECURSIVE RefreshTablesFrom(_, _, _, _, _, _, _)
\* the loop of _refresh_incremental over the catalog snapshot
RefreshTablesFrom(fs, mt, alias, configs, snapshot, order, acc) ==
    IF order = <<>> THEN acc
    ELSE RefreshTablesFrom(fs, mt, alias, configs, snapshot, Tail(order),
             RefreshTable(fs, mt, alias, configs, acc, Head(order),
                          snapshot[Head(order)]))

\* what _refresh_incremental returns after its loop
IncrementalResult(looped) ==
    [sv |-> looped.sv,
     result |-> [changed |-> looped.changed,
                 total |-> Cardinality(DOMAIN looped.sv.catalog)]]

RefreshIncremental(fs, mt, alias, configs, order, sv) ==
    IncrementalResult(RefreshTablesFrom(fs, mt, alias, configs, sv.catalog, order,
                                        [changed |-> 0, sv |-> sv]))

MaxServerCalls == 3

\* the states of a file: up to MaxSheets sheets; its sheet names cannot be
\* read, or one of its sheets cannot be loaded, or nothing fails
FileStates ==
    {[sheets |-> n, unreadable |-> FALSE, failing |-> {}] : n \in 1..MaxSheets}
    \cup {[sheets |-> n, unreadable |-> TRUE, failing |-> {}] : n \in {1}}
    \cup {[sheets |-> MaxSheets, unreadable |-> FALSE, failing |-> {k}] :
             k \in 1..MaxSheets}

ServerState == [names |-> names, counts |-> collision_counts, views |-> views,
                catalog |-> catalog]

\* the server's globals after an operation that left sv, and the log entry
ServerBecomes(sv, entry) ==
    /\ names' = sv.names
    /\ collision_counts' = sv.counts
    /\ views' = sv.views
    /\ catalog' = sv.catalog
    /\ history' = Append(history, entry)

\* load_dir(root, alias)
LoadDirCall ==
    /\ Len(history) < MaxServerCalls
    /\ \E order \in Orders(DOMAIN files) :
       \E out \in {LoadDir(files, mtime, order, Alias, ServerState)} :
          /\ ServerBecomes(out.sv, [op |-> "load_dir", alias |-> Alias, before |-> catalog])
          /\ returned' = [op |-> "load_dir", result |-> out.result]
    /\ load_configs' = [a \in DOMAIN load_configs \cup {Alias} |-> [root |-> "root"]]
    /\ UNCHANGED <<ws, override, explicit, faults, structure_info, frame, conditions,
                   pc, cache, call, mtime, threads, lock, files>>

\* refresh(alias, full=True)
RefreshFullCall ==
    /\ Len(history) < MaxServerCalls
    /\ load_configs # <<>>
    /\ \E alias \in {Alias, NONE} :
       \E order \in Orders(DOMAIN files) :
       \E out \in {RefreshFull(files, mtime, order, alias, load_configs, ServerState)} :
          /\ ServerBecomes(out.sv, [op |-> "refresh_full", alias |-> alias,
                                    before |-> catalog])
          /\ returned' = [op |-> "refresh", result |-> out.result]
    /\ UNCHANGED <<ws, override, explicit, faults, structure_info, frame, conditions,
                   pc, cache, call, mtime, threads, lock, files, load_configs>>

\* refresh(alias, full=False).  The loop follows the order of the catalog
\* dict; its passes reload different tables and leave the same state in
\* every order, so one order stands for all.
RefreshIncrementalCall ==
    /\ Len(history) < MaxServerCalls
    /\ load_configs # <<>>
    /\ \E alias \in {Alias, NONE} :
       \E order \in {InSomeOrder(DOMAIN catalog)} :
       \E out \in {RefreshIncremental(files, mtime, alias, load_configs, order,
                                      ServerState)} :
          /\ ServerBecomes(out.sv, [op |-> "refresh_incremental", alias |-> alias,
                                    before |-> catalog])
          /\ returned' = [op |-> "refresh", result |-> out.result]
    /\ UNCHANGED <<ws, override, explicit, faults, structure_info, frame, conditions,
                   pc, cache, call, mtime, threads, lock, files, load_configs>>

\* a file of the directory is rewritten under the same path, with the same
\* sheets: a later st_mtime and one more row in every sheet
ModifyFile ==
    /\ Len(history) < MaxServerCalls
    /\ load_configs # <<>>
    /\ \E p \in DOMAIN files : TouchFile(p, ws)
    /\ history' = Append(history, [op |-> "modify", alias |-> NONE, before |-> catalog])
    /\ UNCHANGED <<override, explicit, faults, names, collision_counts, views,
                   structure_info, returned, frame, conditions, pc, cache, call,
                   threads, lock, server_vars>>

InitServer ==
    /\ files \in [Paths -> FileStates]
    /\ catalog = <<>>
    /\ load_configs = <<>>
    /\ ws = Sheet(<<Blank>>, {})
    /\ override = NoOverride
    /\ explicit = {}
    /\ faults = NoFaults
    /\ names = {}
    /\ collision_counts = <<>>
    /\ views = <<>>
    /\ structure_info = CreateDefaultStructureInfo
    /\ returned = NothingReturned
    /\ frame = NoFrame
    /\ conditions = <<>>
    /\ pc = "idle"
    /\ cache = <<>>
    /\ call = [file_path |-> "book.xlsx", sheet |-> "Sheet"]
    /\ mtime = [p \in Paths |-> 1]
    /\ history = <<>>
    /\ threads = <<>>
    /\ lock = FreeLock

NextServer == LoadDirCall \/ RefreshFullCall \/ RefreshIncrementalCall \/ ModifyFile

SpecServer == InitServer /\ [][NextServer]_vars

\* the last call was op
LastCall(op) == history # <<>> /\ history[Len(history)].op = op

\* loading the file raises: at its sheet names or at one of its sheets
FileFails(p) == files[p].unreadable \/ files[p].failing # {}

\* sheet k of file p has a table in the catalog, loaded from the file as it
\* is now and present in the database
SheetInCatalog(p, k) ==
    \E n \in DOMAIN catalog :
        /\ catalog[n].relpath = p /\ catalog[n].sheet = SheetNames[k]
        /\ catalog[n].mtime = mtime[p]
        /\ n \in DOMAIN views

\* C22: in a bulk load_dir a file whose loading raises never aborts the
\* operation: every other matched file is loaded and its tables are entered
\* in the catalog, and the failed file is recorded in the result's failed
\* list next to the successes.
C22_FailedFileNeverAborts ==
    LastCall("load_dir")
    => /\ returned.op = "load_dir"
       /\ Range(returned.result.failed) = {p \in DOMAIN files : FileFails(p)}
       /\ returned.result.files_count
             = Cardinality({p \in DOMAIN files : ~FileFails(p)})
       /\ \A p \in DOMAIN files :
             ~FileFails(p) => \A k \in 1..files[p].sheets : SheetInCatalog(p, k)

C22_Witness ==
    /\ Len(history) = 1 /\ LastCall("load_dir")
    /\ files["book.xlsx"].failing = {2}
    /\ ~FileFails("data.xlsx") /\ files["data.xlsx"].sheets = 2
    /\ returned.result.failed = <<"book.xlsx">>
    /\ returned.result.files_count = 1
    /\ DOMAIN catalog = {"test.book.sheet", "test.data.sheet", "test.data.data"}

\* the catalog before the last call
Before == history[Len(history)].before

\* the tables the last call, a refresh, loaded again: every table of the
\* namespace for a full refresh of an alias with a load config, the tables
\* of the files written since their load for an incremental one
ReloadedTables ==
    IF LastCall("refresh_full")
    THEN IF history[Len(history)].alias = NONE THEN {} ELSE TablesOf(Before, Alias)
    ELSE {n \in DOMAIN Before : mtime[Before[n].relpath] > Before[n].mtime}

\* C23: after a refresh, full or incremental, of a namespace whose files and
\* sheets kept their paths and names, every reloaded table is in the catalog
\* and in the database under the name it had before the refresh, so that
\* views referring to it keep resolving.
C23_RefreshKeepsNames ==
    ((LastCall("refresh_full") \/ LastCall("refresh_incremental"))
       /\ \A p \in DOMAIN files : ~FileFails(p))
    => \A n \in ReloadedTables : n \in DOMAIN catalog /\ n \in DOMAIN views

====
